---- MODULE Spec2Model ----
(***************************************************************************)
(* Obstacle-aware link router of the satisfactory planner: the per-link    *)
(* route cache / scheduler of class Link (getLatLngs, the debounce timer   *)
(* of _schedulePathRecompute, the incremental solve of                     *)
(* _computeAStarPathAsync) together with the node drag handlers that move  *)
(* the pins the links read.                                                *)
(*                                                                         *)
(* Two revisions of Link are kept in the source tree.  They share the      *)
(* scheduler and differ in what getLatLngs returns without a committed     *)
(* path and in the post-processing of a solved path; the variable          *)
(* revision selects the one a behaviour runs.                              *)
(*                                                                         *)
(* Units.  Game coordinates are integers.  A latitude/longitude is an      *)
(* integer number of thirds of a micro-degree, the unit in which one game  *)
(* unit of the map projection is 512; one step of toFixed(5) is 30.        *)
(* Time is in milliseconds.                                                *)
(***************************************************************************)
EXTENDS Integers, Sequences, FiniteSets, Bags, TLC

(***************************************************************************)
(* Bounds of the model.                                                    *)
(***************************************************************************)
\* largest number of solves of one link kept in flight at once
MaxSolves == 2
\* milliseconds by which one step of the clock advances
TimeStep == 25

(***************************************************************************)
(* Program constants.                                                      *)
(***************************************************************************)
gridSize == 800
DebounceDelay == 50
LatLngPerGameUnit == 512
KeyQuantum == 30
paddingCells == 4
\* width and height of every node of the model (multiples of gridSize)
nodeSize == [width |-> 800, height |-> 800]

Nodes == {"n1", "n2", "n3"}
Links == {"l1"}
\* another link of the plan, from output pin 0 of n3 to input pin 0 of n2
PeerLinks == {"l2"}
\* mapPlanner.getLinks(): the links in the order of linkMap
LinkOrder == << "l1", "l2" >>
NoNode == "none"
NoLink == "none"
Null == <<>>

\* the link the user may create: from output pin 0 of n1 to input pin 0 of n2;
\* n3 is a node no link ends at
LinkFrom(l) == IF l \in PeerLinks THEN "n3" ELSE "n1"
LinkTo(l) == "n2"

\* where a node is loaded, and the grid-snapped places a drag may take it to
InitXY(n) == CASE n = "n1" -> <<0, 0>>
               [] n = "n2" -> <<3200, 0>>
               [] OTHER    -> <<0, 2400>>
\* (pointer position minus the drag offset, before snapToGrid)
DragTargets(n) == CASE n = "n2" -> {<<3190, 10>>, <<2410, 805>>}
                    [] OTHER    -> {}

(***************************************************************************)
(* Arithmetic helpers of the JavaScript runtime.                           *)
(***************************************************************************)
Abs(a) == IF a < 0 THEN -a ELSE a
Sign(a) == IF a > 0 THEN 1 ELSE IF a < 0 THEN -1 ELSE 0
Min(a, b) == IF a <= b THEN a ELSE b
Max(a, b) == IF a >= b THEN a ELSE b
\* floor and ceiling of a / d for d > 0 (\div of TLA+ rounds down)
Floor(a, d) == a \div d
Ceil(a, d) == -((-a) \div d)
\* Math.round(a / d): the nearest integer, a half rounds up
Round(a, d) == (2 * a + d) \div (2 * d)

(***************************************************************************)
(* Coordinate adapter (MapPlanner).                                        *)
(***************************************************************************)
snapToGrid(v) == Round(v, gridSize) * gridSize

\* game coordinates -> lat/lng; the latitude decreases as game y grows
unproject(g) == << -(g[2] * LatLngPerGameUnit), g[1] * LatLngPerGameUnit >>

\* lat/lng -> game coordinates, rounded to integers by Math.round
convertToGameCoordinates(ll) ==
  << Round(ll[2], LatLngPerGameUnit), Round(-ll[1], LatLngPerGameUnit) >>

\* Number.prototype.toFixed(5): the value rounded to five decimals
toFixed5(v) == IF v >= 0 THEN (2 * v + KeyQuantum) \div (2 * KeyQuantum)
               ELSE -((2 * (-v) + KeyQuantum) \div (2 * KeyQuantum))

(***************************************************************************)
(* Pins.  A link uses pin index 0 of its nodes.                             *)
(***************************************************************************)
\* Pin.getOffset: eighths of the node's size, as <<xFactor * 8, yFactor * 8>>
\* for a pin of the given type on a node of orientation o; pinIndex is 1/8
getOffset(o, type) ==
  CASE o = "down"  -> << IF type = "input" THEN 8 ELSE 0, 7 >>
    [] o = "left"  -> << 7, IF type = "input" THEN 0 ELSE 8 >>
    [] o = "right" -> << 1, IF type = "input" THEN 8 ELSE 0 >>
    [] OTHER       -> << IF type = "input" THEN 0 ELSE 8, 1 >>

\* Pin.update(nodeBounds): the circle's lat/lng inside the bounds whose
\* north-west corner is the game point b
PinLatLng(b, o, type) ==
  LET south == unproject(<<b[1], b[2] + nodeSize.height>>)[1]
      north == unproject(b)[1]
      west  == unproject(b)[2]
      east  == unproject(<<b[1] + nodeSize.width, b[2]>>)[2]
      off   == getOffset(o, type)
  IN << south + ((north - south) * off[2]) \div 8,
        west + ((east - west) * off[1]) \div 8 >>

(***************************************************************************)
(* Region selection of _computeAStarPathAsync, in both revisions.  A       *)
(* region is the record of the locals minX, minY, maxX, maxY, cols, rows   *)
(* and the cell size.                                                      *)
(***************************************************************************)
\* the % operator of JavaScript: the remainder has the sign of the dividend
JsRem(a, d) == IF a >= 0 THEN a % d ELSE -((-a) % d)

\* src/unnamed/part_003: the bounding box padded and snapped to grid lines
Region_part_003(s, e) ==
  LET resolution == gridSize
      padding == resolution * paddingCells
      minX == Floor(Min(s[1], e[1]) - padding, resolution) * resolution
      maxX == Ceil(Max(s[1], e[1]) + padding, resolution) * resolution
      minY == Floor(Min(s[2], e[2]) - padding, resolution) * resolution
      maxY == Ceil(Max(s[2], e[2]) + padding, resolution) * resolution
  IN [ cell |-> resolution, minX |-> minX, maxX |-> maxX,
       minY |-> minY, maxY |-> maxY,
       cols |-> Round(maxX - minX, resolution) + 1,
       rows |-> Round(maxY - minY, resolution) + 1 ]

\* src/src/Link.js: the bounding box padded and shifted to center on the start pin
Region_Link_js(s, e) ==
  LET cell == Max(150, gridSize)
      offsetX == JsRem(s[1], cell) - cell \div 2
      offsetY == JsRem(s[2], cell)
      padding == Max(nodeSize.width, nodeSize.width) * 4
      minX == Min(s[1], e[1]) - padding - offsetX
      maxX == Max(s[1], e[1]) + padding - offsetX
      minY == Min(s[2], e[2]) - padding - offsetY
      maxY == Max(s[2], e[2]) + padding - offsetY
  IN [ cell |-> cell, minX |-> minX, maxX |-> maxX,
       minY |-> minY, maxY |-> maxY,
       cols |-> Max(2, Ceil(maxX - minX, cell) + 1),
       rows |-> Max(2, Ceil(maxY - minY, cell) + 1) ]

Region(rev, s, e) ==
  IF rev = "part_003" THEN Region_part_003(s, e) ELSE Region_Link_js(s, e)

\* toCellX without Math.min and Math.max
toCellX_unclamped(R, x) == Floor(x - R.minX, R.cell)
toCellX(R, x) == Min(R.cols - 1, Max(0, Floor(x - R.minX, R.cell)))
toCellY(R, y) == Min(R.rows - 1, Max(0, Floor(y - R.minY, R.cell)))
toCell(R, p) == << toCellX(R, p[1]), toCellY(R, p[2]) >>
toPoint(R, c) == << R.minX + c[1] * R.cell + R.cell \div 2,
                    R.minY + c[2] * R.cell + R.cell \div 2 >>

(***************************************************************************)
(* Path post-processing.                                                   *)
(***************************************************************************)
\* the loop comparing one component of the direction, not both
RECURSIVE SimplifyFrom_either(_, _, _, _, _)
SimplifyFrom_either(points, i, res, prevDx, prevDy) ==
  IF i > Len(points) THEN res
  ELSE LET last == res[Len(res)]
           dx == Sign(points[i][1] - last[1])
           dy == Sign(points[i][2] - last[2])
       IN IF prevDx = dx \/ prevDy = dy
          THEN SimplifyFrom_either(points, i + 1,
                                   [res EXCEPT ![Len(res)] = points[i]],
                                   prevDx, prevDy)
          ELSE SimplifyFrom_either(points, i + 1, Append(res, points[i]), dx, dy)

RECURSIVE SimplifyFrom(_, _, _, _, _)
SimplifyFrom(points, i, res, prevDx, prevDy) ==
  IF i > Len(points) THEN res
  ELSE LET last == res[Len(res)]
           dx == Sign(points[i][1] - last[1])
           dy == Sign(points[i][2] - last[2])
       IN IF prevDx = dx /\ prevDy = dy
          THEN SimplifyFrom(points, i + 1,
                            [res EXCEPT ![Len(res)] = points[i]], prevDx, prevDy)
          ELSE SimplifyFrom(points, i + 1, Append(res, points[i]), dx, dy)

\* Link._simplifyOrthogonal; 2 stands for the null of prevDx and prevDy
_simplifyOrthogonal(points) ==
  IF Len(points) <= 2 THEN points
  ELSE SimplifyFrom(points, 2, << points[1] >>, 2, 2)

RECURSIVE PruneFrom(_, _, _, _)
PruneFrom(points, i, out, minLen) ==
  IF i > Len(points) - 1 THEN Append(out, points[Len(points)])
  ELSE LET prev == out[Len(out)]
           curr == points[i]
           next == points[i + 1]
           \* Math.hypot of two points that share a coordinate
           dist == Abs(prev[1] - curr[1]) + Abs(prev[2] - curr[2])
       IN IF curr = prev
          THEN PruneFrom(points, i + 1, out, minLen)
          ELSE IF /\ \/ prev[1] = curr[1] /\ curr[1] = next[1]
                     \/ prev[2] = curr[2] /\ curr[2] = next[2]
                  /\ dist < minLen
               THEN PruneFrom(points, i + 1, out, minLen)
               ELSE PruneFrom(points, i + 1, Append(out, curr), minLen)

\* Link._pruneShortSegments
_pruneShortSegments(points, minLen) ==
  IF Len(points) < 3 THEN points
  ELSE PruneFrom(points, 2, << points[1] >>, minLen)

\* stitchAxis taking the axis of the smaller displacement first
stitchAxis_minorFirst(a, b, cell) ==
  LET dx == b[1] - a[1]
      dy == b[2] - a[2]
  IN IF dx = 0 \/ dy = 0 THEN << >>
     ELSE IF Abs(dx) < Abs(dy)
          THEN << << a[1] + Sign(dx) * Min(Abs(dx), cell \div 2), a[2] >>,
                  << b[1], a[2] >> >>
          ELSE << << a[1], a[2] + Sign(dy) * Min(Abs(dy), cell \div 2) >>,
                  << a[1], b[2] >> >>

\* the local function stitchAxis of _stitchEndpoints
stitchAxis(a, b, cell) ==
  LET dx == b[1] - a[1]
      dy == b[2] - a[2]
  IN IF dx = 0 \/ dy = 0 THEN << >>
     ELSE IF Abs(dx) >= Abs(dy)
          THEN << << a[1] + Sign(dx) * Min(Abs(dx), cell \div 2), a[2] >>,
                  << b[1], a[2] >> >>
          ELSE << << a[1], a[2] + Sign(dy) * Min(Abs(dy), cell \div 2) >>,
                  << a[1], b[2] >> >>

\* Link._stitchEndpoints of src/unnamed/part_003 (no final simplification)
_stitchEndpoints(start, points, end, cell) ==
  LET path == IF Len(points) > 0 THEN points ELSE << end >>
      first == path[1]
      last == path[Len(path)]
      seg == IF ~(first[1] = start[1] \/ first[2] = start[2])
             THEN stitchAxis(start, first, cell) ELSE << >>
      seg2 == IF ~(end[1] = last[1] \/ end[2] = last[2])
              THEN stitchAxis(last, end, cell) ELSE << >>
  IN << start >> \o seg \o path \o seg2 \o << end >>

\* Link._stitchEndpoints of the revision rev: src/src/Link.js ends with
\* `_simplifyOrthogonal(_pruneShortSegments(result, Math.max(1, 0.25 * cell)))`
stitchEndpoints(rev, start, points, end, cell) ==
  IF rev = "part_003" THEN _stitchEndpoints(start, points, end, cell)
  ELSE _simplifyOrthogonal(
         _pruneShortSegments(_stitchEndpoints(start, points, end, cell),
                             Max(1, cell \div 4)))

\* the polyline the success branch of the findPath callback commits
CommittedLatLngs(rev, R, s, e, path) ==
  LET pts == [i \in 1..Len(path) |-> toPoint(R, path[i])]
      stitched ==
        IF rev = "part_003"
        THEN _stitchEndpoints(s, pts, e, R.cell)
        ELSE _pruneShortSegments(_simplifyOrthogonal(pts),
                                 Max(1, (4 * R.cell) \div 10))
  IN [i \in 1..Len(stitched) |-> unproject(stitched[i])]

(***************************************************************************)
(* The planning grid of _computeAStarPathAsync.  A grid is a function from *)
(* the cells <<cx, cy>> of a region to the numbers the code stores.        *)
(***************************************************************************)
haloCells == 1

\* the numbers a revision writes into the grid
Tile(rev) ==
  IF rev = "part_003"
  THEN [walkable |-> 1, halo |-> 3, blocked |-> 9, core |-> 6]
  ELSE [walkable |-> 1, halo |-> 55, blocked |-> 0, corridor |-> 3,
        pinCell |-> 6, core |-> 6, ring |-> 14]

\* setAcceptableTiles without the value of the halo
AcceptableTiles_noHalo(rev) ==
  IF rev = "part_003" THEN {1, 6} ELSE {1, 3, 5, 6, 10, 12, 14, 25}

\* easystar.setAcceptableTiles
AcceptableTiles(rev) ==
  IF rev = "part_003" THEN {1, 3, 6} ELSE {1, 3, 5, 6, 10, 12, 14, 25, 55}

Cells(R) == (0..(R.cols - 1)) \X (0..(R.rows - 1))

\* a function as the table of its values, as an array holds them
Array(f) == IF f = f THEN f ELSE f

\* the grid after `for (...) row[x] = 1`
FilledGrid(rev, R) == Array([c \in Cells(R) |-> Tile(rev).walkable])

\* the rectangle [node.x, node.y, node.x + width, node.y + height] of a node
\* whose corner is b
NodeRect(b) == [x1 |-> b[1], y1 |-> b[2],
                x2 |-> b[1] + nodeSize.width, y2 |-> b[2] + nodeSize.height]

\* the cells the two loops of markRect visit: up to the cell of the larger
\* corner, exclusive in src/unnamed/part_003 (<) and inclusive in
\* src/src/Link.js (<=)
InMarkRect(rev, R, c, x1, y1, x2, y2) ==
  LET mincX == toCellX(R, Min(x1, x2))
      maxcX == toCellX(R, Max(x1, x2))
      mincY == toCellY(R, Min(y1, y2))
      maxcY == toCellY(R, Max(y1, y2))
  IN IF rev = "part_003"
     THEN mincX <= c[1] /\ c[1] < maxcX /\ mincY <= c[2] /\ c[2] < maxcY
     ELSE mincX <= c[1] /\ c[1] <= maxcX /\ mincY <= c[2] /\ c[2] <= maxcY

\* the local function markRect
markRect(rev, R, g, x1, y1, x2, y2, value, blockInside) ==
  Array([c \in DOMAIN g |->
     IF InMarkRect(rev, R, c, x1, y1, x2, y2)
     THEN IF blockInside THEN Tile(rev).blocked ELSE Max(g[c], value)
     ELSE g[c]])

\* `if (nx2 < minX || nx1 > maxX || ny2 < minY || ny1 > maxY) continue`
OutsideRegion(R, r) ==
  r.x2 < R.minX \/ r.x1 > R.maxX \/ r.y2 < R.minY \/ r.y1 > R.maxY

\* the two markRect calls of the node loop, for the rectangle r
markHalo(rev, R, g, r) ==
  LET halo == haloCells * R.cell
  IN markRect(rev, R, g, r.x1 - halo, r.y1 - halo, r.x2 + halo, r.y2 + halo,
              Tile(rev).halo, FALSE)

markInterior(rev, R, g, r) ==
  markRect(rev, R, g, r.x1, r.y1, r.x2, r.y2, Tile(rev).blocked, TRUE)

\* one iteration of `for (const node of this.mapPlanner.nodes)`
rasterizeNode(rev, R, g, r) ==
  IF OutsideRegion(R, r) THEN g
  ELSE markInterior(rev, R, markHalo(rev, R, g, r), r)

\* the node loop over the rectangles rs, in their order
RECURSIVE nodeLoop(_, _, _, _)
nodeLoop(rev, R, g, rs) ==
  IF rs = << >> THEN g
  ELSE nodeLoop(rev, R, rasterizeNode(rev, R, g, Head(rs)), Tail(rs))

InGrid(R, c) == c[1] >= 0 /\ c[1] < R.cols /\ c[2] >= 0 /\ c[2] < R.rows

\* src/src/Link.js: grid[startCY][startCX] = 1; grid[endCY][endCX] = 1
carveEnds(g, sc, ec) == [[g EXCEPT ![sc] = 1] EXCEPT ![ec] = 1]

\* src/src/Link.js: the local functions forceSetCell and raiseCellCost
forceSetCell(R, g, c, value) ==
  IF ~InGrid(R, c) THEN g ELSE [g EXCEPT ![c] = value]

raiseCellCost(R, g, c, value) ==
  IF ~InGrid(R, c) THEN g
  ELSE IF g[c] # 0 THEN [g EXCEPT ![c] = Max(g[c], value)] ELSE g

\* the direction carveCorridor leaves the rectangle r by, from the pin p
corridorDir(p, r) ==
  LET dLeft == Abs(p[1] - r.x1)
      dRight == Abs(r.x2 - p[1])
      dTop == Abs(p[2] - r.y1)
      dBottom == Abs(r.y2 - p[2])
      minD == Min(Min(dLeft, dRight), Min(dTop, dBottom))
  IN IF minD = dLeft THEN << -1, 0 >>
     ELSE IF minD = dRight THEN << 1, 0 >>
     ELSE IF minD = dTop THEN << 0, -1 >>
     ELSE << 0, 1 >>

\* src/src/Link.js: the local function carveCorridor, 2 + haloCells cells long
carveCorridor(R, g, p, r, c0) ==
  LET dir == corridorDir(p, r)
      tile == Tile("Link_js")
      c1 == << c0[1] + dir[1], c0[2] + dir[2] >>
      c2 == << c1[1] + dir[1], c1[2] + dir[2] >>
      g1 == forceSetCell(R, g, c0, tile.corridor)
      g2 == forceSetCell(R, g1, c1, tile.corridor)
      g3 == forceSetCell(R, g2, c2, tile.corridor)
  IN raiseCellCost(R, g3, c0, tile.pinCell)

\* Math.ceil(Math.hypot(dx, dy) / cell)
CeilHypot(dx, dy, cell) ==
  CHOOSE k \in 0..((Abs(dx) + Abs(dy)) \div cell + 1) :
    /\ k * k * cell * cell >= dx * dx + dy * dy
    /\ k = 0 \/ (k - 1) * (k - 1) * cell * cell < dx * dx + dy * dy

\* the cells of the samples of the segment from a to b (game coordinates):
\* the point a + (b - a) * (s / steps) for s = 0 .. steps
SegmentCells(R, a, b) ==
  LET dx == b[1] - a[1]
      dy == b[2] - a[2]
      steps == Max(1, CeilHypot(dx, dy, R.cell))
  IN { << Min(R.cols - 1, Max(0, Floor((a[1] - R.minX) * steps + dx * s,
                                        R.cell * steps))),
          Min(R.rows - 1, Max(0, Floor((a[2] - R.minY) * steps + dy * s,
                                        R.cell * steps))) >> : s \in 0..steps }

\* the cells sampled along the polyline ll (lat/lngs)
PolylineCells(R, ll) ==
  UNION { SegmentCells(R, convertToGameCoordinates(ll[i]),
                          convertToGameCoordinates(ll[i + 1])) :
          i \in 1..(Len(ll) - 1) }

Neighbours4(c) == { << c[1], c[2] - 1 >>, << c[1], c[2] + 1 >>,
                    << c[1] - 1, c[2] >>, << c[1] + 1, c[2] >> }

\* the link penalty pass over the polyline ll.  Every write of the pass is
\* `if (grid !== 0) grid = Math.max(grid, v)`, so the value a cell ends with
\* is the largest of its value before and the penalties written to it: core
\* at a sampled cell, and in src/src/Link.js ring at the 4-neighbours of a
\* sampled cell
penalizeLink(rev, R, g, ll) ==
  LET samples == PolylineCells(R, ll)
      tile == Tile(rev)
  IN Array([c \in DOMAIN g |->
        IF g[c] = 0 THEN 0
        ELSE LET core == IF c \in samples THEN tile.core ELSE g[c]
                 ring == IF rev # "part_003" /\ Neighbours4(c) \cap samples # {}
                         THEN tile.ring ELSE g[c]
             IN Max(g[c], Max(core, ring))])

\* the penalty pass over the polylines lls of the other links, in order
RECURSIVE penalizeLinks(_, _, _, _)
penalizeLinks(rev, R, g, lls) ==
  IF lls = << >> THEN g
  ELSE penalizeLinks(rev, R, penalizeLink(rev, R, g, Head(lls)), Tail(lls))

\* the carving of src/src/Link.js between the node loop and the penalty
\* pass; src/unnamed/part_003 has none.  p and q are the pins, rs and re the
\* rectangles of the start and the end node
carve(rev, R, g, p, q, rs, re) ==
  IF rev = "part_003" THEN g
  ELSE LET sc == toCell(R, p)
           ec == toCell(R, q)
       IN carveCorridor(R, carveCorridor(R, carveEnds(g, sc, ec), p, rs, sc),
                        q, re, ec)

\* the grid handed to easystar.setGrid: rects are the rectangles of the
\* nodes in the order of mapPlanner.nodes, lls the polylines of otherLinks
BuildGrid(rev, p, q, rects, rs, re, lls) ==
  LET R == Region(rev, p, q)
      g1 == nodeLoop(rev, R, FilledGrid(rev, R), rects)
      g2 == carve(rev, R, g1, p, q, rs, re)
  IN penalizeLinks(rev, R, g2, lls)

(***************************************************************************)
(* EasyStar.  findPath answers [] when start and end are one cell and null *)
(* when the end cell holds no acceptable tile; the start cell is not       *)
(* looked at.  The search steps onto acceptable tiles only, in 8           *)
(* directions after enableDiagonals() (src/unnamed/part_003) and in 4      *)
(* otherwise (src/src/Link.js), and answers null when it finds no path.    *)
(***************************************************************************)
\* easystar.setTileCost: the cost of stepping onto a tile t
TileCost(rev, t) ==
  IF rev = "part_003" THEN t
  ELSE IF t = 10 THEN 20 ELSE IF t = 25 THEN 30 ELSE t

\* the steps of the search, in the order up, right, down, left, then the
\* diagonals that enableDiagonals() adds
Directions(rev) ==
  IF rev = "part_003"
  THEN << << 0, -1 >>, << 1, 0 >>, << 0, 1 >>, << -1, 0 >>,
          << -1, -1 >>, << 1, -1 >>, << 1, 1 >>, << -1, 1 >> >>
  ELSE << << 0, -1 >>, << 1, 0 >>, << 0, 1 >>, << -1, 0 >> >>

\* the cost of the step d onto the cell n, in tenths: 1.0 straight, 1.4
\* diagonal, times the cost of the tile
StepCost(rev, g, d, n) ==
  (IF d[1] # 0 /\ d[2] # 0 THEN 14 ELSE 10) * TileCost(rev, g[n])

Unreached == 1000000

\* the cells of the grid one step away from a cell of the set cs
Around(rev, R, cs) ==
  LET dirs == Directions(rev)
  IN { n \in { << c[1] + dirs[i][1], c[2] + dirs[i][2] >> :
                 c \in cs, i \in DOMAIN dirs } : InGrid(R, n) }

\* the least cost from the cell c by one step onto an acceptable cell and
\* from there by the costs-to-go f
viaNeighbour(rev, R, g, f, c) ==
  LET dirs == Directions(rev)
      via == { LET n == << c[1] + dirs[i][1], c[2] + dirs[i][2] >>
               IN IF InGrid(R, n) /\ g[n] \in AcceptableTiles(rev)
                     /\ f[n] < Unreached
                  THEN StepCost(rev, g, dirs[i], n) + f[n]
                  ELSE Unreached : i \in DOMAIN dirs }
  IN CHOOSE v \in via : \A u \in via : v <= u

\* the least cost from every cell to the end cell: the costs-to-go f are
\* lowered at the cells around those lowered last, until none is lowered
RECURSIVE costToGo(_, _, _, _, _)
costToGo(rev, R, g, f, lowered) ==
  LET cand == Around(rev, R, lowered)
      f2 == Array([c \in Cells(R) |->
              IF c \in cand THEN Min(f[c], viaNeighbour(rev, R, g, f, c))
              ELSE f[c]])
      low2 == {c \in cand : f2[c] < f[c]}
  IN IF low2 = {} THEN f ELSE costToGo(rev, R, g, f2, low2)

\* the path from c by the costs-to-go f: at every cell the step of least
\* cost, the first such in the order of Directions
RECURSIVE descend(_, _, _, _, _, _)
descend(rev, R, g, f, c, ec) ==
  IF c = ec THEN << c >>
  ELSE LET dirs == Directions(rev)
           to(i) == << c[1] + dirs[i][1], c[2] + dirs[i][2] >>
           ok == { i \in DOMAIN dirs :
                     /\ InGrid(R, to(i))
                     /\ g[to(i)] \in AcceptableTiles(rev)
                     /\ f[to(i)] < Unreached }
           cost(i) == StepCost(rev, g, dirs[i], to(i)) + f[to(i)]
           i == CHOOSE j \in ok :
                  \A k \in ok : cost(j) < cost(k) \/ (cost(j) = cost(k) /\ j <= k)
       IN << c >> \o descend(rev, R, g, f, to(i), ec)

\* the answer of the search over the grid g: a path of least cost from sc
\* to ec, << >> for null and for []
FindPath(rev, R, g, sc, ec) ==
  IF sc = ec \/ g[ec] \notin AcceptableTiles(rev) THEN << >>
  ELSE LET f == costToGo(rev, R, g,
                  Array([c \in Cells(R) |-> IF c = ec THEN 0 ELSE Unreached]),
                  {ec})
       IN IF f[sc] >= Unreached THEN << >>
          ELSE descend(rev, R, g, f, sc, ec)

(***************************************************************************)
(* State.                                                                  *)
(***************************************************************************)
VARIABLES
  revision,             \* "part_003" or "Link_js": the revision of Link that runs
  orientation,          \* node.orientation of every node, as loaded
  nodeOrder,            \* mapPlanner.nodes: the nodes in the order of iteration
  peers,                \* per link of PeerLinks: its route state as the grid
                        \* build of another link reads it
  gb,                   \* the grid build of GridSpec: the pass reached and
                        \* the locals of _computeAStarPathAsync
  nodeXY,               \* node.x, node.y: the saved position of every node
  dragNode,             \* the node whose `dragging` is set, or NoNode
  pinBounds,            \* per node, the corner of the bounds of its last Pin.update
  linkState,            \* per link: "absent", "live" (in linkMap) or "removed"
  selectedLink,         \* mapPlanner.selectedLink, or NoLink
  _lastEndpointsKey,    \* per link: the stored signature, Null before the first read
  _pathLatLngs,         \* per link: the committed path, or Null
  _recomputeScheduled,  \* per link: the pending flag
  polyline,             \* per link: the lat/lngs last handed to polyline.setLatLngs
  timers,               \* per link: ages of its outstanding debounce timers
  solves,               \* per link: the bag of its solves, from launch to the end
                        \* of their tick chain
  pathLaunch,           \* history, per link: the endpoints read by the launch of the
                        \* solve that committed _pathLatLngs, Null with a null path
  lastRead,             \* history, per link: how its last getLatLngs call went:
                        \* "none" before the first call, "hit" (signature
                        \* unchanged), "miss" (changed, timer armed by the call),
                        \* "missPending" (changed, the timer was pending already)
                        \* or "failed" (signature unchanged since a solve
                        \* launched for it failed with no recomputation pending)
  postCall              \* PathSpec: the point lists a path function of Link is
                        \* called with, and what its calls have returned

vars == << revision, orientation, nodeOrder, peers, gb, nodeXY, dragNode, pinBounds, linkState, selectedLink,
           _lastEndpointsKey, _pathLatLngs, _recomputeScheduled, polyline,
           timers, solves, pathLaunch, lastRead, postCall >>

\* postCall where no path function is called on its own
NoCall == [ fn |-> "none", start |-> << 0, 0 >>, points |-> << >>,
            end |-> << 0, 0 >>, rets |-> << >> ]

\* what no handler and no callback writes
planVars == << revision, orientation, nodeOrder, postCall >>
nodeVars == << nodeXY, dragNode, pinBounds >>
linkVars == << _lastEndpointsKey, _pathLatLngs, _recomputeScheduled, polyline,
               timers, pathLaunch, lastRead >>

(***************************************************************************)
(* The route state of one link as a record, and the methods of Link that   *)
(* act on it.                                                              *)
(***************************************************************************)
LinkRec(l) == [ key |-> _lastEndpointsKey[l], path |-> _pathLatLngs[l],
                sched |-> _recomputeScheduled[l], polyline |-> polyline[l],
                timers |-> timers[l],
                launch |-> pathLaunch[l], read |-> lastRead[l] ]

\* the constructor initialising `_recomputeScheduled` to true
NewLinkRec_pending == [ key |-> Null, path |-> Null, sched |-> TRUE,
                        polyline |-> << >>, timers |-> << >>,
                        launch |-> Null, read |-> "none" ]

\* the state of a link object when its constructor reaches this.create()
NewLinkRec == [ key |-> Null, path |-> Null, sched |-> FALSE,
                polyline |-> << >>, timers |-> << >>,
                launch |-> Null, read |-> "none" ]

startLatLng(pb, l) ==
  PinLatLng(pb[LinkFrom(l)], orientation[LinkFrom(l)], "output")
endLatLng(pb, l) ==
  PinLatLng(pb[LinkTo(l)], orientation[LinkTo(l)], "input")

\* the template string `key` of getLatLngs
EndpointsKey(startLL, endLL) ==
  << toFixed5(startLL[1]), toFixed5(startLL[2]),
     toFixed5(endLL[1]), toFixed5(endLL[2]) >>

\* _schedulePathRecompute without its first line `if (_recomputeScheduled) return`
_schedulePathRecompute_noGuard(L) ==
  [L EXCEPT !.sched = TRUE, !.timers = Append(@, 0)]

\* _schedulePathRecompute without its setTimeout: the flag is set, no timer armed
_schedulePathRecompute_noTimer(L) ==
  [L EXCEPT !.sched = TRUE]

\* Link._schedulePathRecompute: arm the 50 ms timer unless one is pending
_schedulePathRecompute(L) ==
  IF L.sched THEN L
  ELSE [L EXCEPT !.sched = TRUE, !.timers = Append(@, 0)]

\* the fallback elbow of src/src/Link.js; src/unnamed/part_003 returns []
fallbackElbow(rev, startLL, endLL) ==
  IF rev = "part_003" THEN << >>
  ELSE LET midX == startLL[2] + (endLL[2] - startLL[2]) \div 2
       IN << startLL, << startLL[1], midX >>, << endLL[1], midX >>, endLL >>

\* getLatLngs without the comparison with _lastEndpointsKey: every call
\* invalidates
getLatLngs_noCompare(rev, L, startLL, endLL) ==
  LET key == EndpointsKey(startLL, endLL)
      L2 == _schedulePathRecompute(
              [L EXCEPT !.key = key, !.path = Null, !.launch = Null,
                        !.read = IF L.sched THEN "missPending" ELSE "miss"])
  IN [ state |-> L2, ret |-> fallbackElbow(rev, startLL, endLL) ]

\* getLatLngs without `this._pathLatLngs = null`: a changed signature is
\* stored and the recomputation scheduled, the committed path stays
getLatLngs_keepsPath(rev, L, startLL, endLL) ==
  LET key == EndpointsKey(startLL, endLL)
      L2 == IF L.key # key
            THEN _schedulePathRecompute(
                   [L EXCEPT !.key = key,
                             !.read = IF L.sched THEN "missPending" ELSE "miss"])
            ELSE [L EXCEPT !.read = IF @ = "failed" THEN "failed" ELSE "hit"]
  IN [ state |-> L2,
       ret |-> IF L2.path # Null /\ Len(L2.path) > 0 THEN L2.path
               ELSE fallbackElbow(rev, startLL, endLL) ]

\* Link.getLatLngs: the route state after the call, and the value returned
getLatLngs(rev, L, startLL, endLL) ==
  LET key == EndpointsKey(startLL, endLL)
      L2 == IF L.key # key
            THEN _schedulePathRecompute(
                   [L EXCEPT !.key = key, !.path = Null, !.launch = Null,
                             !.read = IF L.sched THEN "missPending" ELSE "miss"])
            ELSE [L EXCEPT !.read = IF @ = "failed" THEN "failed" ELSE "hit"]
  IN [ state |-> L2,
       ret |-> IF L2.path # Null /\ Len(L2.path) > 0 THEN L2.path
               ELSE fallbackElbow(rev, startLL, endLL) ]

\* Link.update: read the path and hand it to the polyline
update(rev, L, startLL, endLL) ==
  LET g == getLatLngs(rev, L, startLL, endLL)
  IN [g.state EXCEPT !.polyline = g.ret]

\* the route states after update() of every link of the set ls, the pins
\* being placed by the bounds pb
UpdateAll(ls, pb) ==
  [l \in Links |-> IF l \in ls
                   THEN update(revision, LinkRec(l),
                               startLatLng(pb, l), endLatLng(pb, l))
                   ELSE LinkRec(l)]

SetLinks(f) ==
  /\ _lastEndpointsKey' = [l \in Links |-> f[l].key]
  /\ _pathLatLngs' = [l \in Links |-> f[l].path]
  /\ _recomputeScheduled' = [l \in Links |-> f[l].sched]
  /\ polyline' = [l \in Links |-> f[l].polyline]
  /\ timers' = [l \in Links |-> f[l].timers]
  /\ pathLaunch' = [l \in Links |-> f[l].launch]
  /\ lastRead' = [l \in Links |-> f[l].read]

\* pin.linkedLinks of the pins of node n: the links not removed that end at n
LinkedLinks(n) ==
  {l \in Links : linkState[l] = "live" /\ (LinkFrom(l) = n \/ LinkTo(l) = n)}

(***************************************************************************)
(* The other links of a grid build.                                        *)
(***************************************************************************)
\* a link of PeerLinks that is not in linkMap
AbsentPeer == [ live |-> FALSE, key |-> Null, path |-> Null, sched |-> FALSE,
                polyline |-> << >> ]

\* Link.update of a link of PeerLinks whose route state is P
updatePeer(rev, P, startLL, endLL) ==
  LET L == update(rev, [ key |-> P.key, path |-> P.path, sched |-> P.sched,
                         polyline |-> P.polyline, timers |-> << >>,
                         launch |-> Null, read |-> "none" ],
                  startLL, endLL)
  IN [ live |-> TRUE, key |-> L.key, path |-> L.path, sched |-> L.sched,
       polyline |-> L.polyline ]

\* peers after update() of the links of PeerLinks that end at the node n,
\* the pins being placed by the bounds pb
UpdatePeers(n, pb) ==
  [k \in PeerLinks |->
     IF peers[k].live /\ n \in {LinkFrom(k), LinkTo(k)}
     THEN updatePeer(revision, peers[k], startLatLng(pb, k), endLatLng(pb, k))
     ELSE peers[k]]

\* what the filter of otherLinks looks at, for every link of the plan
LinkView(k) ==
  IF k \in Links
  THEN [ live |-> linkState[k] = "live", key |-> _lastEndpointsKey[k],
         path |-> _pathLatLngs[k],
         sched |-> _recomputeScheduled[k], polyline |-> polyline[k] ]
  ELSE peers[k]

\* the predicate of `getLinks().filter(...)` for the link k, in the build
\* of the link this.  l.polyline is set for every link of linkMap;
\* _proxyX is a property no node has, so both isNullish tests pass
IsOtherLink(rev, this, k) ==
  /\ LinkView(k).live
  /\ k # this
  /\ rev = "part_003" =>
       /\ LinkView(k).path # Null /\ Len(LinkView(k).path) > 0
       /\ ~LinkView(k).sched

\* otherLinks, and the lat/lngs `l.polyline.getLatLngs()` of each
otherLinks(rev, this) ==
  SelectSeq(LinkOrder, LAMBDA k : IsOtherLink(rev, this, k))

otherPolylines(rev, this) ==
  LET ol == otherLinks(rev, this)
  IN [i \in DOMAIN ol |-> LinkView(ol[i]).polyline]

\* the rectangles the node loop reads: node.x and node.y of every node of
\* mapPlanner.nodes (no node has a method getCurrentGameBounds)
nodeRects(order, xy) == [i \in DOMAIN order |-> NodeRect(xy[order[i]])]

\* easystar.setGrid(g) and easystar.findPath from the cell sc to the cell ec:
\* the grid, the answer `raw` the search over it will give, and whether
\* findPath answers at once
findPath(rev, R, g, sc, ec) ==
  [ grid |-> g,
    raw |-> FindPath(rev, R, g, sc, ec),
    atOnce |-> sc = ec \/ g[ec] \notin AcceptableTiles(rev) ]

\* the grid and the search between the pins s and e (game coordinates)
RouteBetween(rev, s, e, rects, rs, re, lls) ==
  findPath(rev, Region(rev, s, e), BuildGrid(rev, s, e, rects, rs, re, lls),
           toCell(Region(rev, s, e), s), toCell(Region(rev, s, e), e))

\* what _computeAStarPathAsync of the link l computes before it returns, in
\* a plan of revision rev whose nodes have the orientations o, the order
\* `order`, the saved positions xy and the pin bounds pb, the polylines of
\* otherLinks being lls: the grid, the answer `raw` the search over it will
\* give, and whether findPath answers at once
Route(rev, o, order, xy, pb, l, lls) ==
  RouteBetween(rev,
    convertToGameCoordinates(
      PinLatLng(pb[LinkFrom(l)], o[LinkFrom(l)], "output")),
    convertToGameCoordinates(
      PinLatLng(pb[LinkTo(l)], o[LinkTo(l)], "input")),
    nodeRects(order, xy),
    NodeRect(xy[LinkFrom(l)]), NodeRect(xy[LinkTo(l)]), lls)

\* the places a node can be at: where it is loaded and where a drag takes it
Positions(n) ==
  {InitXY(n)} \cup {<< snapToGrid(p[1]), snapToGrid(p[2]) >> : p \in DragTargets(n)}
Placements ==
  {f \in [Nodes -> UNION {Positions(n) : n \in Nodes}] :
     \A n \in Nodes : f[n] \in Positions(n)}
Revisions == {"part_003", "Link_js"}
\* `data.orientation || 'up'`: the orientation of a node loaded without one
DefaultOrientation == [n \in Nodes |-> "up"]
LoadOrder == << "n1", "n2", "n3" >>

\* Route of the one link of Links for every plan with the nodes in the
\* order they are loaded, their orientation the default and no other link,
\* as a table
RouteTable ==
  Array([k \in Revisions \X Placements \X Placements |->
           Route(k[1], DefaultOrientation, LoadOrder, k[2], k[3],
                 CHOOSE l \in Links : TRUE, << >>)])

\* the entry of the table T at k if the table holds the plan, else r
TableOr(T, k, lls, r) ==
  IF /\ lls = << >> /\ nodeOrder = LoadOrder
     /\ orientation = DefaultOrientation /\ k \in DOMAIN T
  THEN T[k]
  ELSE r

\* Route for the link l in the current state
RouteNow(l) ==
  TableOr(RouteTable, << revision, nodeXY, pinBounds >>,
          otherPolylines(revision, l),
          Route(revision, orientation, nodeOrder, nodeXY, pinBounds, l,
                otherPolylines(revision, l)))

\* gb before a grid build of GridSpec
IdleBuild == [ pass |-> "idle", this |-> NoLink, startLL |-> << 0, 0 >>,
               endLL |-> << 0, 0 >>, s |-> << 0, 0 >>, e |-> << 0, 0 >>,
               grid |-> << >>, i |-> 0, j |-> 0 ]

(***************************************************************************)
(* Initial state: the nodes are loaded, no link exists yet.                *)
(***************************************************************************)
Init ==
  /\ postCall = NoCall
  /\ revision \in Revisions
  /\ orientation = DefaultOrientation
  /\ nodeOrder = LoadOrder
  /\ peers = [k \in PeerLinks |-> AbsentPeer]
  /\ gb = IdleBuild
  /\ nodeXY = [n \in Nodes |-> InitXY(n)]
  /\ dragNode = NoNode
  /\ pinBounds = [n \in Nodes |-> InitXY(n)]
  /\ linkState = [l \in Links |-> "absent"]
  /\ selectedLink = NoLink
  /\ _lastEndpointsKey = [l \in Links |-> Null]
  /\ _pathLatLngs = [l \in Links |-> Null]
  /\ _recomputeScheduled = [l \in Links |-> FALSE]
  /\ polyline = [l \in Links |-> << >>]
  /\ timers = [l \in Links |-> << >>]
  /\ solves = [l \in Links |-> EmptyBag]
  /\ pathLaunch = [l \in Links |-> Null]
  /\ lastRead = [l \in Links |-> "none"]

(***************************************************************************)
(* User operations.                                                        *)
(***************************************************************************)
\* MapPlanner.addLink: new Link(...) runs constructor, create() and update()
addLink(l) ==
  /\ linkState[l] = "absent"
  /\ linkState' = [linkState EXCEPT ![l] = "live"]
  /\ UNCHANGED << planVars, peers, gb, nodeVars, selectedLink, solves >>
  /\ SetLinks([k \in Links |->
       IF k = l
       THEN update(revision, NewLinkRec,
                   startLatLng(pinBounds, l), endLatLng(pinBounds, l))
       ELSE LinkRec(k)])

\* MapPlanner.selectLink: update() of the previous and of the new selection
selectLink(t) ==
  /\ t = NoLink \/ (t \in Links /\ linkState[t] = "live")
  /\ selectedLink # t
  /\ selectedLink' = t
  /\ UNCHANGED << planVars, peers, gb, nodeVars, linkState, solves >>
  /\ LET ls == {selectedLink, t} \cap Links
     IN SetLinks(UpdateAll(ls, pinBounds))

\* the 'input' listener of the link form: update() of the selected link
linkFormInput ==
  /\ selectedLink # NoLink
  /\ UNCHANGED << planVars, peers, gb, nodeVars, linkState, selectedLink, solves >>
  /\ SetLinks(UpdateAll({selectedLink}, pinBounds))

\* the 'click' listener of btn_del_link: Link.remove, removeLink, selectLink(null)
deleteLink ==
  /\ selectedLink # NoLink
  /\ linkState' = [linkState EXCEPT ![selectedLink] = "removed"]
  /\ selectedLink' = NoLink
  /\ UNCHANGED << planVars, peers, gb, nodeVars, solves >>
  /\ SetLinks(UpdateAll({selectedLink}, pinBounds))

\* Node.startDragging
startDragging(n) ==
  /\ dragNode = NoNode
  /\ dragNode' = n
  /\ UNCHANGED << planVars, peers, gb, nodeXY, pinBounds, linkState, selectedLink,
                  linkVars, solves >>

\* Node.handleOnMouseMove while dragging: the ghost and the pins follow the
\* pointer, and every pin updates its links
handleOnMouseMove(n, p) ==
  /\ dragNode = n
  /\ UNCHANGED << planVars, gb, nodeXY, dragNode, linkState, selectedLink, solves >>
  /\ LET pb == [pinBounds EXCEPT ![n] = << snapToGrid(p[1]), snapToGrid(p[2]) >>]
     IN /\ pinBounds' = pb
        /\ peers' = UpdatePeers(n, pb)
        /\ SetLinks(UpdateAll(LinkedLinks(n), pb))

\* Node.stopDragging: the node takes the snapped position, Node.update
\* places the pins by the saved bounds
stopDragging(n, p) ==
  /\ dragNode = n
  /\ dragNode' = NoNode
  /\ UNCHANGED << planVars, gb, linkState, selectedLink, solves >>
  /\ LET xy == << snapToGrid(p[1]), snapToGrid(p[2]) >>
         pb == [pinBounds EXCEPT ![n] = xy]
     IN /\ nodeXY' = [nodeXY EXCEPT ![n] = xy]
        /\ pinBounds' = pb
        /\ peers' = UpdatePeers(n, pb)
        /\ SetLinks(UpdateAll(LinkedLinks(n), pb))

(***************************************************************************)
(* The event loop: the clock, the debounce timer and the solves.           *)
(***************************************************************************)
RemoveAt(q, i) == [j \in 1..(Len(q) - 1) |-> IF j < i THEN q[j] ELSE q[j + 1]]

Aged(a) == Min(DebounceDelay, a + TimeStep)

\* TimeStep milliseconds pass.  A task queued with delay 0 (the callback of
\* an ended search, the last tick of a finished solve) runs before that much
\* time has passed; the batches of a running search are what takes the time.
AdvanceTime ==
  /\ \E l \in Links : \E i \in DOMAIN timers[l] : timers[l][i] < DebounceDelay
  /\ \A l \in Links : \A v \in BagToSet(solves[l]) : v.phase = "searching"
  /\ timers' = [l \in Links |-> [i \in DOMAIN timers[l] |-> Aged(timers[l][i])]]
  /\ UNCHANGED << planVars, peers, gb, nodeVars, linkState, selectedLink,
                  _lastEndpointsKey, _pathLatLngs, _recomputeScheduled,
                  polyline, solves, pathLaunch, lastRead >>

\* the record of a solve started with the endpoints startLL and endLL, r
\* being the grid and the search of the launch
Started(startLL, endLL, r, ends) ==
  [ startLL |-> startLL, endLL |-> endLL,
    s |-> convertToGameCoordinates(startLL),
    e |-> convertToGameCoordinates(endLL),
    raw |-> r.raw,
    phase |-> IF ends \/ r.atOnce THEN "callbackQueued" ELSE "searching" ]

\* Link._computeAStarPathAsync up to the return of the first tick(): the
\* endpoints are read now and the grid is built from them; findPath registers
\* the search and the first calculate() runs one batch of it (2000
\* iterations); ends tells whether the search ends in that batch.  A search
\* that does (or that findPath answers at once, start and end being one
\* cell or the end cell holding no acceptable tile) has its callback queued
\* by the setTimeout inside EasyStar; tick is queued again in every case,
\* `finished` being false until the callback runs.  The record of a solve
\* holds what its closures captured, and raw, the answer the search over
\* the grid of the launch will give.
\* (Launch_savedPins: the launch reading the pins where the nodes were saved)
Launch_savedPins(l, ends) ==
  Started(startLatLng(nodeXY, l), endLatLng(nodeXY, l), RouteNow(l), ends)
Launch(l, ends) ==
  Started(startLatLng(pinBounds, l), endLatLng(pinBounds, l), RouteNow(l), ends)

\* a solve whose callback has run: `finished` is true, the queued tick will
\* return at once and nothing the closures captured is read again
Finished(v) == [ startLL |-> << 0, 0 >>, endLL |-> << 0, 0 >>,
                 s |-> << 0, 0 >>, e |-> << 0, 0 >>, raw |-> << >>,
                 phase |-> "finished" ]

\* the timer callback calling _computeAStarPathAsync twice
timerFired_twoLaunches(l) ==
  /\ BagCardinality(solves[l]) < MaxSolves
  /\ \E i \in DOMAIN timers[l] :
       /\ timers[l][i] >= DebounceDelay
       /\ timers' = [timers EXCEPT ![l] = RemoveAt(@, i)]
  /\ _recomputeScheduled' = [_recomputeScheduled EXCEPT ![l] = FALSE]
  /\ \E ends \in BOOLEAN :
       solves' = [solves EXCEPT ![l] = @ (+) SetToBag({Launch(l, ends)})
                                         (+) SetToBag({Launch(l, ends)})]
  /\ UNCHANGED << planVars, peers, gb, nodeVars, linkState, selectedLink,
                  _lastEndpointsKey, _pathLatLngs, polyline, pathLaunch,
                  lastRead >>

\* the callback of setTimeout in _schedulePathRecompute
timerFired(l) ==
  /\ BagCardinality(solves[l]) < MaxSolves
  /\ \E i \in DOMAIN timers[l] :
       /\ timers[l][i] >= DebounceDelay
       /\ timers' = [timers EXCEPT ![l] = RemoveAt(@, i)]
  /\ _recomputeScheduled' = [_recomputeScheduled EXCEPT ![l] = FALSE]
  /\ \E ends \in BOOLEAN :
       solves' = [solves EXCEPT ![l] = @ (+) SetToBag({Launch(l, ends)})]
  /\ UNCHANGED << planVars, peers, gb, nodeVars, linkState, selectedLink,
                  _lastEndpointsKey, _pathLatLngs, polyline, pathLaunch,
                  lastRead >>

\* tick without `if (finished) return`: calculate() finds no search to run
\* and the tick queues itself again
tick_ignoresFinished(l, v) ==
  /\ BagIn(v, solves[l])
  /\ \/ /\ v.phase = "finished"
        /\ solves' = solves
     \/ /\ v.phase = "searching"
        /\ \E ends \in BOOLEAN :
             solves' = [solves EXCEPT ![l] = (@ (-) SetToBag({v})) (+) SetToBag({
               [v EXCEPT !.phase = IF ends THEN "callbackQueued"
                                   ELSE "searching"]})]
  /\ UNCHANGED << planVars, peers, gb, nodeVars, linkState, selectedLink, linkVars >>

\* the local function tick of _computeAStarPathAsync, run from
\* setTimeout(tick, 0): it returns when `finished`, else runs calculate() and
\* queues itself again; the search ends in this batch or needs another one.
\* The callback queued by an ended search was queued before this tick and
\* runs first.
tick(l, v) ==
  /\ BagIn(v, solves[l])
  /\ \/ /\ v.phase = "finished"
        /\ solves' = [solves EXCEPT ![l] = @ (-) SetToBag({v})]
     \/ /\ v.phase = "searching"
        /\ \E ends \in BOOLEAN :
             solves' = [solves EXCEPT ![l] = (@ (-) SetToBag({v})) (+) SetToBag({
               [v EXCEPT !.phase = IF ends THEN "callbackQueued"
                                   ELSE "searching"]})]
  /\ UNCHANGED << planVars, peers, gb, nodeVars, linkState, selectedLink, linkVars >>

\* history: the route state L with the failure of the solve v noted in
\* `read`, if v was launched with the endpoints of the stored signature and
\* no recomputation is pending
Failing(L, v) ==
  IF EndpointsKey(v.startLL, v.endLL) = L.key /\ ~L.sched
  THEN [L EXCEPT !.read = "failed"]
  ELSE L

\* the failure branch of the callback: path null (or empty)
CallbackFailure(rev, L, startLL, endLL) ==
  update(rev, [L EXCEPT !.path = Null, !.launch = Null], startLL, endLL)

\* the success branch without `this.polyline.setLatLngs(latlngs)`
CallbackSuccess_noRender(rev, L, v, path) ==
  LET latlngs == CommittedLatLngs(rev, Region(rev, v.s, v.e), v.s, v.e, path)
  IN [L EXCEPT !.path = latlngs, !.launch = << v.startLL, v.endLL >>]

\* the success branch of the callback, for the solve v and the cell path
CallbackSuccess(rev, L, v, path) ==
  LET latlngs == CommittedLatLngs(rev, Region(rev, v.s, v.e), v.s, v.e, path)
  IN [L EXCEPT !.path = latlngs, !.polyline = latlngs,
               !.launch = << v.startLL, v.endLL >>]

\* the callback handed to easystar.findPath, run with the answer r of the
\* search over the grid built at the launch: the record of the solve v
\* becomes finished and the route state of the link becomes L
findPathCallback(l, v, r, L) ==
  /\ BagIn(v, solves[l])
  /\ v.phase = "callbackQueued"
  /\ r = v.raw
  /\ solves' = [solves EXCEPT ![l] = (@ (-) SetToBag({v})) (+) SetToBag({
                  Finished(v)})]
  /\ UNCHANGED << planVars, peers, gb, nodeVars, linkState, selectedLink >>
  /\ SetLinks([k \in Links |-> IF k = l THEN L ELSE LinkRec(k)])

\* the callback with no path: `if (!path || path.length === 0)`
callbackFailure(l, v) ==
  \E r \in {<< >>} :
    findPathCallback(l, v, r,
      CallbackFailure(revision, Failing(LinkRec(l), v),
                      startLatLng(pinBounds, l), endLatLng(pinBounds, l)))

\* the callback with a path
callbackSuccess(l, v) ==
  \E path \in {v.raw} \ {<< >>} :
    findPathCallback(l, v, path,
      CallbackSuccess(revision, LinkRec(l), v, path))

Next ==
  \/ \E l \in Links : addLink(l)
  \/ \E t \in Links \cup {NoLink} : selectLink(t)
  \/ linkFormInput
  \/ deleteLink
  \/ \E n \in Nodes : DragTargets(n) # {} /\ startDragging(n)
  \/ \E n \in Nodes : \E p \in DragTargets(n) : handleOnMouseMove(n, p)
  \/ \E n \in Nodes : \E p \in DragTargets(n) : stopDragging(n, p)
  \/ AdvanceTime
  \/ \E l \in Links : timerFired(l)
  \/ \E l \in Links : \E v \in BagToSet(solves[l]) : tick(l, v)
  \/ \E l \in Links : \E v \in BagToSet(solves[l]) : callbackFailure(l, v)
  \/ \E l \in Links : \E v \in BagToSet(solves[l]) : callbackSuccess(l, v)

Spec == Init /\ [][Next]_vars

(***************************************************************************)
(* The grid build pass by pass.  GridSpec starts where the debounce timer  *)
(* of the link l1 has just run `_recomputeScheduled = false` and follows   *)
(* the body of _computeAStarPathAsync one pass at a time, then the ticks   *)
(* and the callback of the solve; the plan is drawn by GridInit.  The      *)
(* build is one synchronous run: nothing else acts between its passes.     *)
(***************************************************************************)
\* where n3 is loaded in the plans of GridSpec: next to n1, out of reach,
\* between n1 and n2, or on the right edge of the region
GridXY(n) ==
  IF n = "n3" THEN {<< 0, 1600 >>, << 0, 8000 >>, << 1600, 0 >>, << 6400, 0 >>}
  ELSE {InitXY(n)}

\* the pointer positions of the drag moves that interleave with a grid build
GridDragTargets(n) == DragTargets(n) \cap {<< 2410, 805 >>}

GridInit ==
  /\ postCall = NoCall
  /\ revision \in Revisions
  /\ orientation \in {[n \in Nodes |-> o] : o \in {"up", "down"}}
  /\ nodeOrder \in {LoadOrder, << "n3", "n2", "n1" >>}
  /\ nodeXY \in {f \in [Nodes -> UNION {GridXY(n) : n \in Nodes}] :
                   \A n \in Nodes : f[n] \in GridXY(n)}
  /\ dragNode \in {NoNode, "n2"}
  /\ pinBounds \in {f \in [Nodes -> UNION {Positions(n) \cup GridXY(n) : n \in Nodes}] :
                      \A n \in Nodes :
                        \/ f[n] = nodeXY[n]
                        \/ n = dragNode /\ f[n] \in Positions(n)}
  /\ linkState = [l \in Links |-> "live"]
  /\ selectedLink = NoLink
  /\ _lastEndpointsKey = [l \in Links |->
       EndpointsKey(startLatLng(pinBounds, l), endLatLng(pinBounds, l))]
  /\ _pathLatLngs = [l \in Links |-> Null]
  /\ _recomputeScheduled = [l \in Links |-> FALSE]
  /\ polyline = [l \in Links |->
       fallbackElbow(revision, startLatLng(pinBounds, l), endLatLng(pinBounds, l))]
  /\ timers = [l \in Links |-> << >>]
  /\ solves = [l \in Links |-> EmptyBag]
  /\ pathLaunch = [l \in Links |-> Null]
  /\ lastRead = [l \in Links |-> "miss"]
  /\ \E live \in BOOLEAN :
       peers = [k \in PeerLinks |->
         IF live
         THEN [ live |-> TRUE, path |-> Null, sched |-> TRUE,
                key |-> EndpointsKey(startLatLng(pinBounds, k),
                                     endLatLng(pinBounds, k)),
                polyline |-> fallbackElbow(revision, startLatLng(pinBounds, k),
                                           endLatLng(pinBounds, k)) ]
         ELSE AbsentPeer]
  /\ gb = IdleBuild

\* the local variables of the build at hand
gbRegion == Region(revision, gb.s, gb.e)
gbStartCell == toCell(gbRegion, gb.s)
gbEndCell == toCell(gbRegion, gb.e)
\* the rectangle of the node gb.i read from the pins as a drag has them
gbRect_pinBounds == NodeRect(pinBounds[nodeOrder[gb.i]])
gbRect == NodeRect(nodeXY[nodeOrder[gb.i]])

\* the pass after the node loop
AfterNodes == IF revision = "part_003" THEN "penalize" ELSE "carveEnds"

\* the pass after the node gb.i
AfterNode == IF gb.i = Len(nodeOrder) THEN AfterNodes ELSE "halo"

\* nothing of the build changes anything but gb
gridFrame ==
  UNCHANGED << planVars, peers, nodeVars, linkState, selectedLink, linkVars,
               solves >>

\* the head of _computeAStarPathAsync: the pins, the region, the fill
beginBuild(l) ==
  /\ gb.pass = "idle"
  /\ linkState[l] = "live"
  /\ ~_recomputeScheduled[l]
  /\ LET startLL == startLatLng(pinBounds, l)
         endLL == endLatLng(pinBounds, l)
         s == convertToGameCoordinates(startLL)
         e == convertToGameCoordinates(endLL)
     IN gb' = [ pass |-> "halo", this |-> l, startLL |-> startLL,
                endLL |-> endLL, s |-> s, e |-> e,
                grid |-> FilledGrid(revision, Region(revision, s, e)),
                i |-> 1, j |-> 1 ]
  /\ gridFrame

\* the `continue` of the node loop
skipNode ==
  /\ gb.pass = "halo"
  /\ OutsideRegion(gbRegion, gbRect)
  /\ gb' = [gb EXCEPT !.pass = AfterNode, !.i = @ + 1]
  /\ gridFrame

\* the first markRect of the node loop
markHaloOfNode ==
  /\ gb.pass = "halo"
  /\ ~OutsideRegion(gbRegion, gbRect)
  /\ gb' = [gb EXCEPT !.pass = "interior",
                      !.grid = markHalo(revision, gbRegion, @, gbRect)]
  /\ gridFrame

\* the second markRect of the node loop
markInteriorOfNode ==
  /\ gb.pass = "interior"
  /\ gb' = [gb EXCEPT !.pass = AfterNode, !.i = @ + 1,
                      !.grid = markInterior(revision, gbRegion, @, gbRect)]
  /\ gridFrame

\* src/src/Link.js: the two assignments after the node loop
carveEndsStep ==
  /\ gb.pass = "carveEnds"
  /\ gb' = [gb EXCEPT !.pass = "corridorStart",
                      !.grid = carveEnds(@, gbStartCell, gbEndCell)]
  /\ gridFrame

\* src/src/Link.js: carveCorridor of the start pin, then of the end pin
carveCorridorStep ==
  /\ \/ /\ gb.pass = "corridorStart"
        /\ gb' = [gb EXCEPT !.pass = "corridorEnd",
                            !.grid = carveCorridor(gbRegion, @, gb.s,
                                       NodeRect(nodeXY[LinkFrom(gb.this)]),
                                       gbStartCell)]
     \/ /\ gb.pass = "corridorEnd"
        /\ gb' = [gb EXCEPT !.pass = "penalize",
                            !.grid = carveCorridor(gbRegion, @, gb.e,
                                       NodeRect(nodeXY[LinkTo(gb.this)]),
                                       gbEndCell)]
  /\ gridFrame

\* the link whose polyline the next penalizeStep samples, and the cells of
\* the samples
gbOther == otherLinks(revision, gb.this)[gb.j]
gbSamples == PolylineCells(gbRegion, LinkView(gbOther).polyline)

\* the iteration writing to the link it samples
penalizeStep_marksOther ==
  /\ gb.pass = "penalize"
  /\ gb.j <= Len(otherLinks(revision, gb.this))
  /\ gb' = [gb EXCEPT !.j = @ + 1,
                      !.grid = penalizeLink(revision, gbRegion, @,
                                            LinkView(gbOther).polyline)]
  /\ peers' = [k \in PeerLinks |->
                IF k = gbOther THEN [peers[k] EXCEPT !.path = Null] ELSE peers[k]]
  /\ UNCHANGED << planVars, nodeVars, linkState, selectedLink, linkVars,
                  solves >>

\* one iteration of `for (const l of otherLinks)`
penalizeStep ==
  /\ gb.pass = "penalize"
  /\ gb.j <= Len(otherLinks(revision, gb.this))
  /\ gb' = [gb EXCEPT !.j = @ + 1,
                      !.grid = penalizeLink(revision, gbRegion, @,
                                            LinkView(gbOther).polyline)]
  /\ gridFrame

\* setGrid, findPath and the first tick(): the solve is under way, as at the
\* end of Launch
findPathStep ==
  /\ gb.pass = "penalize"
  /\ gb.j > Len(otherLinks(revision, gb.this))
  /\ BagCardinality(solves[gb.this]) < MaxSolves
  /\ gb' = [gb EXCEPT !.pass = "setGrid"]
  /\ \E raw \in {FindPath(revision, gbRegion, gb.grid, gbStartCell, gbEndCell)} :
     \E ends \in BOOLEAN :
       LET atOnce == \/ gbStartCell = gbEndCell
                     \/ gb.grid[gbEndCell] \notin AcceptableTiles(revision)
           v == [ startLL |-> gb.startLL, endLL |-> gb.endLL, s |-> gb.s,
                  e |-> gb.e, raw |-> raw,
                  phase |-> IF ends \/ atOnce THEN "callbackQueued"
                            ELSE "searching" ]
       IN solves' = [solves EXCEPT ![gb.this] = @ (+) SetToBag({v})]
  /\ UNCHANGED << planVars, peers, nodeVars, linkState, selectedLink, linkVars >>

\* the debounce timer of the link k of PeerLinks
peerTimerFired(k) ==
  /\ gb.pass \in {"idle", "setGrid"}
  /\ peers[k].live /\ peers[k].sched
  /\ peers' = [peers EXCEPT ![k].sched = FALSE]
  /\ UNCHANGED << planVars, gb, nodeVars, linkState, selectedLink, linkVars,
                  solves >>

\* this._pathLatLngs = latlngs; this.polyline.setLatLngs(latlngs)
peerCommitted(P, latlngs) == [P EXCEPT !.path = latlngs, !.polyline = latlngs]

\* the success branch of the callback of the link k of PeerLinks, for the
\* pins s and e and the cell path raw
peerCommit(k, s, e, raw) ==
  /\ raw # << >>
  /\ peers' = [peers EXCEPT ![k] =
       peerCommitted(@, CommittedLatLngs(revision, Region(revision, s, e),
                                         s, e, raw))]

\* the findPath callback of the link k of PeerLinks, its grid built from the
\* plan as it is
peerCallback(k) ==
  /\ gb.pass \in {"idle", "setGrid"}
  /\ peers[k].live /\ ~peers[k].sched /\ peers[k].path = Null
  /\ peerCommit(k, convertToGameCoordinates(startLatLng(pinBounds, k)),
                convertToGameCoordinates(endLatLng(pinBounds, k)),
                Route(revision, orientation, nodeOrder, nodeXY, pinBounds, k,
                      otherPolylines(revision, k)).raw)
  /\ UNCHANGED << planVars, gb, nodeVars, linkState, selectedLink, linkVars,
                  solves >>

GridNext ==
  \/ \E l \in Links : beginBuild(l)
  \/ skipNode
  \/ markHaloOfNode
  \/ markInteriorOfNode
  \/ carveEndsStep
  \/ carveCorridorStep
  \/ penalizeStep
  \/ findPathStep
  \/ \E l \in Links : \E v \in BagToSet(solves[l]) : tick(l, v)
  \/ \E l \in Links : \E v \in BagToSet(solves[l]) : callbackFailure(l, v)
  \/ \E l \in Links : \E v \in BagToSet(solves[l]) : callbackSuccess(l, v)
  \/ \E k \in PeerLinks : peerTimerFired(k)
  \/ \E k \in PeerLinks : peerCallback(k)
  \/ /\ gb.pass = "setGrid"
     /\ \E n \in Nodes : \E p \in GridDragTargets(n) : handleOnMouseMove(n, p)

GridSpec == GridInit /\ [][GridNext]_vars

(***************************************************************************)
(* Vocabulary of the properties.                                           *)
(***************************************************************************)
\* the signature of the endpoints of l as its pins are placed now
CurrentKey(l) ==
  EndpointsKey(startLatLng(pinBounds, l), endLatLng(pinBounds, l))

\* the step is a user handler that calls getLatLngs of l (through update());
\* the pins are read as the handler has placed them
UserRead(l) ==
  \/ addLink(l)
  \/ \E t \in Links \cup {NoLink} : selectLink(t) /\ l \in {selectedLink, t}
  \/ linkFormInput /\ selectedLink = l
  \/ deleteLink /\ selectedLink = l
  \/ \E n \in Nodes : \E p \in DragTargets(n) :
       handleOnMouseMove(n, p) /\ l \in LinkedLinks(n)
  \/ \E n \in Nodes : \E p \in DragTargets(n) :
       stopDragging(n, p) /\ l \in LinkedLinks(n)

\* the step calls getLatLngs of l: a user handler, or the failure branch of
\* the findPath callback
Read(l) ==
  UserRead(l) \/ \E v \in BagToSet(solves[l]) : callbackFailure(l, v)

\* the step is a read of l that finds the signature changed
Invalidation(l) == CurrentKey(l)' # _lastEndpointsKey[l] /\ Read(l)

\* the solves of l that have not delivered their result
InFlight(l) == {v \in BagToSet(solves[l]) : v.phase # "finished"}
NumInFlight(l) ==
  BagCardinality([v \in InFlight(l) |-> CopiesIn(v, solves[l])])

\* nothing of l is left to run and no drag is under way
Quiescent(l) ==
  /\ dragNode = NoNode
  /\ timers[l] = << >>
  /\ solves[l] = EmptyBag

(***************************************************************************)
(* Properties.                                                             *)
(***************************************************************************)
\* C1: cache correctness.  A call of getLatLngs on a link whose committed
\* path P is non-empty and whose endpoints map to the stored signature
\* returns P (the caller hands it to the polyline), leaves the signature,
\* the committed path and the pending flag unchanged, arms no timer and
\* starts no solve.
C1_CacheHit ==
  [][\A l \in Links :
       ( /\ _pathLatLngs[l] # Null
         /\ Len(_pathLatLngs[l]) > 0
         /\ CurrentKey(l)' = _lastEndpointsKey[l]
         /\ UserRead(l) )
       => /\ polyline'[l] = _pathLatLngs[l]
          /\ _lastEndpointsKey'[l] = _lastEndpointsKey[l]
          /\ _pathLatLngs'[l] = _pathLatLngs[l]
          /\ _recomputeScheduled'[l] = _recomputeScheduled[l]
          /\ timers'[l] = timers[l]
          /\ solves'[l] = solves[l]]_vars

\* a link with a committed path whose last read was a cache hit
C1_Witness ==
  \E l \in Links :
    /\ lastRead[l] = "hit"
    /\ _pathLatLngs[l] # Null
    /\ polyline[l] = _pathLatLngs[l]
    /\ _lastEndpointsKey[l] = CurrentKey(l)

\* C2: a solver result is committed only if the endpoints its solve was
\* launched with map to the stored signature when the result arrives; the
\* committed path is never one computed for another signature than the
\* stored one.
C2_CommitMatchesSignature ==
  /\ \A l \in Links :
       _pathLatLngs[l] # Null =>
         EndpointsKey(pathLaunch[l][1], pathLaunch[l][2]) = _lastEndpointsKey[l]

\* C3: at most one solve of a link is in flight.
C3_OneSolveInFlight ==
  \A l \in Links : NumInFlight(l) <= 1

\* C4: drag invalidation converges.  Once the drag is over and every timer
\* and solve of a link of the plan has run to completion, a committed path
\* is the result of a solve launched with the final endpoints.
C4_ConvergesToFinalEndpoints ==
  \A l \in Links :
    (linkState[l] = "live" /\ Quiescent(l) /\ _pathLatLngs[l] # Null) =>
      pathLaunch[l] = << startLatLng(pinBounds, l), endLatLng(pinBounds, l) >>

\* C5: what getLatLngs returned last for a link with both pins (the
\* polyline's points) is never empty.
C5_AlwaysRenderable ==
  \A l \in Links : linkState[l] = "live" => Len(polyline[l]) > 0

\* C6: failure policy.  The failure callback leaves the committed path as it
\* was immediately before the callback.
C6_FailureRetainsPath ==
  [][\A l \in Links : \A v \in BagToSet(solves[l]) :
       callbackFailure(l, v) => _pathLatLngs'[l] = _pathLatLngs[l]]_vars

\* C7: every link has at most one debounce timer outstanding.
C7_OneTimer ==
  \A l \in Links : Len(timers[l]) <= 1

\* an invalidation arrived while the timer was pending for some time, and
\* the timer is still the only one
C7_Witness ==
  \E l \in Links :
    /\ lastRead[l] = "missPending"
    /\ Len(timers[l]) = 1
    /\ timers[l][1] > 0

\* C8: debounce coalescing.  An invalidation starts no solve in its own
\* step (the step adds no solve to those of the link); the firing of the timer launches exactly one solve and leaves no
\* timer behind, however many invalidations the timer stood for.
C8_Coalescing ==
  [][\A l \in Links :
       /\ Invalidation(l) =>
            BagCardinality(solves'[l]) <= BagCardinality(solves[l])
       /\ timerFired(l) =>
            /\ BagCardinality(solves'[l]) = BagCardinality(solves[l]) + 1
            /\ timers'[l] = << >>
            /\ ~_recomputeScheduled'[l]]_vars

\* the timer that was pending at the last invalidation has fired and the
\* solve it launched is there
C8_Witness ==
  \E l \in Links :
    /\ lastRead[l] = "missPending"
    /\ timers[l] = << >>
    /\ ~_recomputeScheduled[l]
    /\ _pathLatLngs[l] = Null
    /\ NumInFlight(l) = 1

\* C9: an invalidation that arrives while the timer is pending re-arms it:
\* after the step the timer has its full delay to run.
C9_InvalidationRearms ==
  [][\A l \in Links :
       (Invalidation(l) /\ timers[l] # << >>) => timers'[l] = << 0 >>]_vars

\* C10: a read that finds the signature changed stores the current
\* signature and leaves a recomputation pending, its timer armed.
C10_Invalidation ==
  [][\A l \in Links :
       Invalidation(l) =>
         /\ _lastEndpointsKey'[l] = CurrentKey(l)'
         /\ _recomputeScheduled'[l]
         /\ timers'[l] # << >>]_vars

\* a read has just invalidated the link and armed its timer
C10_Witness ==
  \E l \in Links :
    /\ lastRead[l] = "miss"
    /\ _lastEndpointsKey[l] = CurrentKey(l)
    /\ _pathLatLngs[l] = Null
    /\ _recomputeScheduled[l]
    /\ timers[l] = << 0 >>

\* C12: endpoint exactness.  Every path committed by a successful solve has
\* as its first point the start pin and as its last point the end pin that
\* the solve was launched with, unsnapped.
C12_EndpointExactness ==
  \A l \in Links :
    _pathLatLngs[l] # Null =>
      /\ _pathLatLngs[l][1] = pathLaunch[l][1]
      /\ _pathLatLngs[l][Len(_pathLatLngs[l])] = pathLaunch[l][2]

\* C13: containment.  When the callback of a solve accepts a raw path, every
\* cell of the path holds, in the grid handed to the solver, a value of the
\* acceptable set, and none holds the blocked sentinel.
C13_Containment ==
  [][\A l \in Links : \A v \in BagToSet(solves[l]) :
       (gb.pass = "setGrid" /\ callbackSuccess(l, v)) =>
         \A i \in DOMAIN v.raw :
           /\ gb.grid[v.raw[i]] \in AcceptableTiles(revision)
           /\ gb.grid[v.raw[i]] # Tile(revision).blocked]_vars

\* the cost the search pays for a cell holding t; none for a blocked cell
CellCost(rev, t) ==
  IF t = Tile(rev).blocked THEN Unreached ELSE TileCost(rev, t)

\* C14: monotonic cost composition.  During one grid build, after the fill,
\* no pass (halo, interior, corridor, congestion) lowers the cost stored in
\* a cell, and a cell once blocked stays blocked.
C14_MonotonicComposition ==
  [][(gb.pass # "idle" /\ gb'.pass # "idle") =>
       \A c \in DOMAIN gb.grid :
         /\ CellCost(revision, gb'.grid[c]) >= CellCost(revision, gb.grid[c])
         /\ gb.grid[c] = Tile(revision).blocked
              => gb'.grid[c] = Tile(revision).blocked]_vars

\* every order of iteration of the nodes
NodeOrders ==
  {o \in [1..Cardinality(Nodes) -> Nodes] : \A n \in Nodes : \E i \in DOMAIN o : o[i] = n}

\* the node loop of the build at hand has just ended
NodeLoopEnded ==
  gb.pass = AfterNodes /\ gb.i = Len(nodeOrder) + 1 /\ gb.j = 1

\* the cell c is one the interior markRect of the node n writes
InInterior(n, c) ==
  LET r == NodeRect(nodeXY[n])
  IN /\ ~OutsideRegion(gbRegion, r)
     /\ InMarkRect(revision, gbRegion, c, r.x1, r.y1, r.x2, r.y2)

\* C15: order independence with blocked winning.  The grid the halo and
\* interior passes produce is the same for every iteration order of the
\* nodes, and a cell inside the interior of a node is blocked, also when it
\* lies in the halo of a node rasterized later.
C15_OrderIndependence ==
  NodeLoopEnded =>
    /\ \A o \in NodeOrders :
         nodeLoop(revision, gbRegion, FilledGrid(revision, gbRegion),
                  nodeRects(o, nodeXY)) = gb.grid
    /\ \A n \in Nodes : \A c \in DOMAIN gb.grid :
         InInterior(n, c) => gb.grid[c] = Tile(revision).blocked

\* C16: after every grid build the start cell and the end cell, the cells of
\* the two pins, hold a non-blocked, acceptable value.
C16_EndsWalkable ==
  gb.pass = "setGrid" =>
    \A c \in {gbStartCell, gbEndCell} :
      /\ gb.grid[c] \in AcceptableTiles(revision)
      /\ gb.grid[c] # Tile(revision).blocked

\* C17: congestion pass, crossing cheaper than hugging.  After the pass over
\* the committed polyline of another link, every non-blocked cell the
\* polyline passes through carries the core penalty (the larger of its
\* value before and core), and every non-blocked cell beside it (a
\* 4-neighbour of such a cell, not itself on the polyline) carries a larger
\* penalty than core.
C17_CrossingCheaper ==
  [][(penalizeStep /\ LinkView(gbOther).path # Null) =>
       \A c \in DOMAIN gb.grid :
         gb.grid[c] # Tile(revision).blocked =>
           /\ c \in gbSamples =>
                gb'.grid[c] = Max(gb.grid[c], Tile(revision).core)
           /\ (c \notin gbSamples /\ Neighbours4(c) \cap gbSamples # {}) =>
                gb'.grid[c] > Tile(revision).core]_vars

\* C18: the congestion pass of a grid build samples only committed paths of
\* other links: never the link being computed, never a link without a
\* committed path, never a link one of whose end nodes is being dragged.
C18_OnlyCommittedOthers ==
  [][penalizeStep =>
       /\ gbOther # gb.this
       /\ LinkView(gbOther).path # Null
       /\ LinkView(gbOther).polyline = LinkView(gbOther).path
       /\ dragNode \notin {LinkFrom(gbOther), LinkTo(gbOther)}]_vars

\* C19: live bounds.  When a grid is built while a node is being dragged,
\* the obstacle rasterized for that node is its live rectangle (the bounds
\* of the ghost, by which its pins are placed), not the rectangle of its
\* saved x and y.
C19_LiveBounds ==
  [][(markInteriorOfNode /\ nodeOrder[gb.i] = dragNode) =>
       gb'.grid = markInterior(revision, gbRegion, gb.grid,
                               NodeRect(pinBounds[dragNode]))]_vars

\* the signature, the committed path and the pending flag of a link
RouteState(k) == << LinkView(k).key, LinkView(k).path, LinkView(k).sched >>

\* update() of the link k, called by the drag handler of one of its nodes
OwnInvalidation(k) ==
  \E n \in {LinkFrom(k), LinkTo(k)} : \E p \in GridDragTargets(n) :
    handleOnMouseMove(n, p)

\* a step of the cycle of the link k that writes its route state
OwnRouteStep(k) ==
  \/ OwnInvalidation(k)
  \/ /\ k \in PeerLinks
     /\ peerTimerFired(k) \/ peerCallback(k)
  \/ /\ k \in Links
     /\ \E v \in BagToSet(solves[k]) :
          tick(k, v) \/ callbackFailure(k, v) \/ callbackSuccess(k, v)

\* C20: route-state ownership.  Whenever the signature, the committed path or
\* the pending flag of a link changes, the step is one of that link's own
\* cycle (its invalidation, its timer, its commit or its failure); the grid
\* build, the solver tick, the commit and the failure of a link leave the route
\* state of every other link as it was, whatever the interleaving.
C20_RouteStateOwnership ==
  [][\A k \in Links \cup PeerLinks :
       RouteState(k)' # RouteState(k) => OwnRouteStep(k)]_vars

\* both links have committed a route, the grid of l1 having been built while
\* the route of l2 was on the plan
C20_Witness ==
  /\ gb.pass = "setGrid"
  /\ gb.j > 1
  /\ peers["l2"].path # Null
  /\ _pathLatLngs["l1"] # Null

(***************************************************************************)
(* The solves of a link under a fair event loop.  A link is added to a     *)
(* plan on which a node may be under drag; the drag ends at most once, so   *)
(* that a second solve may start while the first one is in flight.          *)
(***************************************************************************)
LiveInit ==
  /\ postCall = NoCall
  /\ revision \in Revisions
  /\ orientation = DefaultOrientation
  /\ nodeOrder = LoadOrder
  /\ peers = [k \in PeerLinks |-> AbsentPeer]
  /\ gb = IdleBuild
  /\ nodeXY = [n \in Nodes |-> InitXY(n)]
  /\ dragNode \in {NoNode, "n2"}
  /\ pinBounds \in {f \in Placements :
                      \A n \in Nodes : n # dragNode => f[n] = InitXY(n)}
  /\ linkState = [l \in Links |-> "absent"]
  /\ selectedLink = NoLink
  /\ _lastEndpointsKey = [l \in Links |-> Null]
  /\ _pathLatLngs = [l \in Links |-> Null]
  /\ _recomputeScheduled = [l \in Links |-> FALSE]
  /\ polyline = [l \in Links |-> << >>]
  /\ timers = [l \in Links |-> << >>]
  /\ solves = [l \in Links |-> EmptyBag]
  /\ pathLaunch = [l \in Links |-> Null]
  /\ lastRead = [l \in Links |-> "none"]

LiveNext ==
  \/ \E l \in Links : addLink(l)
  \/ \E n \in Nodes : \E p \in DragTargets(n) : stopDragging(n, p)
  \/ AdvanceTime
  \/ \E l \in Links : timerFired(l)
  \/ \E l \in Links : \E v \in BagToSet(solves[l]) : tick(l, v)
  \/ \E l \in Links : \E v \in BagToSet(solves[l]) : callbackFailure(l, v)
  \/ \E l \in Links : \E v \in BagToSet(solves[l]) : callbackSuccess(l, v)

\* The event loop runs every task that is queued: time passes, a timer that
\* is due fires, a queued callback and a queued tick run.  A tick that only
\* queues itself again leaves the state as it is, so the fairness of tick
\* also says that a batch comes in which the search ends: every iteration
\* of the search closes a cell of a finite grid.  The user's operations are
\* under no fairness.  The weak fairness of the callback with a path is
\* written out, callbackQueuedWithPath being what enables it.
callbackQueuedWithPath(l) ==
  \E v \in BagToSet(solves[l]) : v.phase = "callbackQueued" /\ v.raw # << >>

LiveFairness ==
  /\ WF_vars(AdvanceTime)
  /\ \A l \in Links :
       /\ WF_vars(timerFired(l))
       /\ WF_vars(\E v \in BagToSet(solves[l]) : tick(l, v))
       /\ WF_vars(\E v \in BagToSet(solves[l]) : callbackFailure(l, v))
       /\ \/ []<>(~callbackQueuedWithPath(l))
          \/ []<><<\E v \in BagToSet(solves[l]) : callbackSuccess(l, v)>>_vars

LiveSpec == LiveInit /\ [][LiveNext]_vars /\ LiveFairness

\* the solves of l whose callback has run and whose last tick is queued
NumFinished(l) == BagCardinality(solves[l]) - NumInFlight(l)

\* C11: the incremental solve terminates.  A step starts one solve, or runs
\* a batch that delivers nothing, or delivers the one result of one solve
\* (which from then on counts as finished), or runs the last tick of a
\* finished solve, which queues nothing; and under a fair event loop every
\* solve that was started is over at some later time, its result delivered
\* and its last tick run.
C11_SolveTerminates ==
  /\ [][\A l \in Links :
          LET u == NumInFlight(l)
              f == NumFinished(l)
          IN \/ NumInFlight(l)' = u + 1 /\ NumFinished(l)' = f
             \/ NumInFlight(l)' = u /\ NumFinished(l)' = f
             \/ NumInFlight(l)' = u - 1 /\ NumFinished(l)' = f + 1
             \/ NumInFlight(l)' = u /\ NumFinished(l)' = f - 1]_vars
  /\ \A l \in Links : (solves[l] # EmptyBag) ~> (solves[l] = EmptyBag)

\* the last tick of a solve is queued while a second solve, started when the
\* drag ended, is still searching
C11_Witness ==
  \E l \in Links :
    /\ NumFinished(l) = 1
    /\ \E v \in InFlight(l) : v.phase = "searching"

\* C21: every commit of a new path is pushed to the renderer in the same
\* step.  After a step that stores a path in _pathLatLngs (the success branch
\* of the findPath callback is the one place that does), the polyline of the
\* link holds that path.
C21_CommitRendered ==
  [][\A l \in Links :
       (_pathLatLngs'[l] # Null /\ _pathLatLngs'[l] # _pathLatLngs[l])
       => polyline'[l] = _pathLatLngs'[l]]_vars

\* a solve has committed its path and the polyline shows it, the link not
\* having been read since
C21_Witness ==
  \E l \in Links :
    /\ _pathLatLngs[l] # Null
    /\ pathLaunch[l] # Null
    /\ polyline[l] = _pathLatLngs[l]
    /\ lastRead[l] # "hit"

\* what getLatLngs of l returns if it is called now
Served(l) ==
  getLatLngs(revision, LinkRec(l), startLatLng(pinBounds, l),
             endLatLng(pinBounds, l)).ret

\* C22: no automatic retry.  From the failure of a solve of a link on, for as
\* long as the signature of its endpoints stays what it was, no step arms a
\* timer of the link, no step starts a solve of it, and what getLatLngs
\* returns stays the same.  Stated for the failure of a solve that was
\* launched with the endpoints of the stored signature, no recomputation
\* being pending.
C22_NoRetry ==
  [][\A l \in Links :
       (lastRead[l] = "failed" /\ lastRead'[l] = "failed")
       => /\ Len(timers'[l]) <= Len(timers[l])
          /\ BagCardinality(solves'[l]) <= BagCardinality(solves[l])
          /\ Served(l)' = Served(l)]_vars

\* ps is the elbow from a to b (points <<lat, lng>>): a, then the point of
\* a's latitude at the horizontal midpoint, then the point of b's latitude
\* there, then b
IsElbow(ps, a, b) ==
  /\ Len(ps) = 4
  /\ ps[1] = a
  /\ ps[4] = b
  /\ ps[2][1] = a[1]
  /\ ps[3][1] = b[1]
  /\ ps[2][2] = ps[3][2]
  /\ Abs(2 * ps[2][2] - (a[2] + b[2])) <= 1

\* C23: fallback geometry.  A call of getLatLngs on a link with both pins
\* that leaves it without a committed path returns the four-point elbow
\* between the pins as they are, and starts no solve.
C23_FallbackElbow ==
  [][\A l \in Links :
       (Read(l) /\ linkState'[l] = "live" /\ _pathLatLngs'[l] = Null)
       => /\ IsElbow(polyline'[l], startLatLng(pinBounds, l)',
                     endLatLng(pinBounds, l)')
          /\ BagCardinality(solves'[l]) <= BagCardinality(solves[l])]_vars

\* the padding of the region of a revision, in game units
padding(rev) ==
  IF rev = "part_003" THEN gridSize * paddingCells
  ELSE Max(nodeSize.width, nodeSize.width) * 4

\* C24: grid alignment.  The region of every grid build has its origin
\* (minX, minY) and its extent at integer multiples of the global resolution,
\* contains the bounding box of the two endpoints expanded by the padding on
\* every side, and has the center of every cell at
\* origin + (index + 1/2) * resolution.
C24_GridAlignment ==
  gb.pass # "idle" =>
    LET R == gbRegion
        pad == padding(revision)
    IN /\ R.minX % gridSize = 0
       /\ R.minY % gridSize = 0
       /\ (R.maxX - R.minX) % gridSize = 0
       /\ (R.maxY - R.minY) % gridSize = 0
       /\ R.minX <= Min(gb.s[1], gb.e[1]) - pad
       /\ R.maxX >= Max(gb.s[1], gb.e[1]) + pad
       /\ R.minY <= Min(gb.s[2], gb.e[2]) - pad
       /\ R.maxY >= Max(gb.s[2], gb.e[2]) + pad
       /\ \A c \in Cells(R) :
            /\ 2 * toPoint(R, c)[1] = 2 * R.minX + (2 * c[1] + 1) * gridSize
            /\ 2 * toPoint(R, c)[2] = 2 * R.minY + (2 * c[2] + 1) * gridSize

\* a second solve for the endpoints, the node rectangles and the polylines
\* of otherLinks of the build at hand, computed in one piece as Launch does
SecondSolve ==
  RouteBetween(revision, gb.s, gb.e, nodeRects(nodeOrder, nodeXY),
               NodeRect(nodeXY[LinkFrom(gb.this)]),
               NodeRect(nodeXY[LinkTo(gb.this)]),
               otherPolylines(revision, gb.this))

\* the grid g and the solves vs are those of the solve r
SameSolve(r, g, vs) == g = r.grid /\ \A v \in vs : v.raw = r.raw

\* the lat/lngs the success branch commits for the solve v
Commits(v) ==
  CommittedLatLngs(revision, Region(revision, v.s, v.e), v.s, v.e, v.raw)

\* the polylines the penalty pass of src/unnamed/part_003 samples are the
\* committed paths of the links of otherLinks
ReadsCommitted ==
  revision = "part_003" =>
    \A k \in Links \cup PeerLinks :
      IsOtherLink(revision, gb.this, k) => LinkView(k).polyline = LinkView(k).path

Coords == {0, 100, 1000}
Points == Coords \X Coords
MaxPoints == 4
MaxStitched == 2
MaxCalls == 2
PointLists(n) == UNION {[1..k -> Points] : k \in 0..n}

\* the centers of the cells of a 3 x 3 grid of the resolution gridSize, and
\* where a pin can be in the cell of a center: toCell takes the pins from
\* half a cell before the center (inclusive) to half a cell after it
Centers == {gridSize \div 2 + i * gridSize : i \in 0..2} \X
           {gridSize \div 2 + i * gridSize : i \in 0..2}
PinOffsets == {-400, -100, 0, 250} \X {-400, -100, 0, 250}

\* b follows a in a cell path, raw or simplified: in one of the 8 directions
Follows(a, b) ==
  /\ a # b
  /\ \/ a[1] = b[1] \/ a[2] = b[2]
     \/ Abs(b[1] - a[1]) = Abs(b[2] - a[2])

\* the lists of 1 to n cell centers a path can consist of
CenterPaths(n) ==
  UNION {{ps \in [1..k -> Centers] :
            \A i \in 1..(k - 1) : Follows(ps[i], ps[i + 1])} : k \in 1..n}

PathInit ==
  /\ \/ \E ps \in PointLists(MaxPoints) :
          postCall = [NoCall EXCEPT !.points = ps]
     \/ \E ps \in CenterPaths(MaxStitched) :
        \E a \in PinOffsets : \E b \in PinOffsets :
          postCall = [NoCall EXCEPT
            !.start = << ps[1][1] + a[1], ps[1][2] + a[2] >>,
            !.points = ps,
            !.end = << ps[Len(ps)][1] + b[1], ps[Len(ps)][2] + b[2] >>]
  /\ revision \in Revisions
  /\ orientation = DefaultOrientation
  /\ nodeOrder = LoadOrder
  /\ peers = [k \in PeerLinks |-> AbsentPeer]
  /\ gb = IdleBuild
  /\ nodeXY = [n \in Nodes |-> InitXY(n)]
  /\ dragNode = NoNode
  /\ pinBounds = [n \in Nodes |-> InitXY(n)]
  /\ linkState = [l \in Links |-> "absent"]
  /\ selectedLink = NoLink
  /\ _lastEndpointsKey = [l \in Links |-> Null]
  /\ _pathLatLngs = [l \in Links |-> Null]
  /\ _recomputeScheduled = [l \in Links |-> FALSE]
  /\ polyline = [l \in Links |-> << >>]
  /\ timers = [l \in Links |-> << >>]
  /\ solves = [l \in Links |-> EmptyBag]
  /\ pathLaunch = [l \in Links |-> Null]
  /\ lastRead = [l \in Links |-> "none"]

pathFrame ==
  UNCHANGED << revision, orientation, nodeOrder, peers, gb, nodeVars,
               linkState, selectedLink, linkVars, solves >>

\* a call of _simplifyOrthogonal: on the points drawn, then on what the
\* call before returned
simplifyCall ==
  /\ postCall.fn \in {"none", "simplify"}
  /\ Len(postCall.rets) < MaxCalls
  /\ postCall' = [postCall EXCEPT
       !.fn = "simplify",
       !.rets = Append(@, _simplifyOrthogonal(
                            IF @ = << >> THEN postCall.points ELSE @[Len(@)]))]
  /\ pathFrame

\* a call of _stitchEndpoints(start, points, end, resolution), with the
\* centers of the cells of a path
stitchCall ==
  /\ postCall.fn = "none"
  /\ postCall.points # << >>
  /\ \A i \in DOMAIN postCall.points : postCall.points[i] \in Centers
  /\ postCall' = [postCall EXCEPT
       !.fn = "stitch",
       !.rets = << stitchEndpoints(revision, postCall.start, postCall.points,
                                   postCall.end, gridSize) >>]
  /\ pathFrame

PathNext == simplifyCall \/ stitchCall

PathSpec == PathInit /\ [][PathNext]_vars

\* C26: idempotent simplification.  For every point list p,
\* _simplifyOrthogonal(_simplifyOrthogonal(p)) = _simplifyOrthogonal(p).
C26_IdempotentSimplification ==
  (postCall.fn = "simplify" /\ Len(postCall.rets) = 2)
    => postCall.rets[2] = postCall.rets[1]

\* the simplifier has run twice on a list it shortened to three points or more
C26_Witness ==
  /\ postCall.fn = "simplify" /\ Len(postCall.rets) = 2
  /\ Len(postCall.rets[1]) < Len(postCall.points)
  /\ Len(postCall.rets[1]) >= 3

\* the segment from b to c continues in the unit direction of the segment
\* from a to b
SameDirection(a, b, c) ==
  LET ux == b[1] - a[1]  uy == b[2] - a[2]
      vx == c[1] - b[1]  vy == c[2] - b[2]
  IN ux * vy - uy * vx = 0 /\ ux * vx + uy * vy > 0

\* ps has no interior waypoint at which it continues straight on
Minimal(ps) ==
  \A i \in 2..(Len(ps) - 1) : ~SameDirection(ps[i - 1], ps[i], ps[i + 1])

\* C27: minimal polyline.  A committed path contains no interior waypoint at
\* which the path continues in the same unit direction as the segment
\* before it.
C27_MinimalPolyline ==
  \A l \in Links :
    _pathLatLngs[l] # Null
      => Minimal([i \in DOMAIN _pathLatLngs[l] |->
                    convertToGameCoordinates(_pathLatLngs[l][i])])

\* the point p lies strictly inside the rectangle r
StrictlyInside(r, p) ==
  r.x1 < p[1] /\ p[1] < r.x2 /\ r.y1 < p[2] /\ p[2] < r.y2

\* the rectangle r lies directly between the points s and e: the straight
\* segment from s to e, sampled at its eighths, passes through its inside
Between(r, s, e) ==
  \E k \in 1..7 :
    StrictlyInside(r, << s[1] + ((e[1] - s[1]) * k) \div 8,
                         s[2] + ((e[2] - s[2]) * k) \div 8 >>)

\* the rectangle r fits inside the region R
FitsInside(R, r) ==
  R.minX <= r.x1 /\ r.x2 <= R.maxX /\ R.minY <= r.y1 /\ r.y2 <= R.maxY

\* the node of the plan at no end of a link of Links
OtherNodes == Nodes \ UNION {{LinkFrom(l), LinkTo(l)} : l \in Links}

\* C28: detour around a single obstacle.  When the one node other than the
\* two end nodes lies directly between the endpoints of a solve and fits
\* inside its padded region, the solve succeeds and no point of the path it
\* commits lies strictly inside the rectangle of that node.
C28_Detour ==
  \A l \in Links : \A v \in BagToSet(solves[l]) : \A n \in OtherNodes :
    (/\ Between(NodeRect(nodeXY[n]), v.s, v.e)
     /\ FitsInside(Region(revision, v.s, v.e), NodeRect(nodeXY[n])))
      => /\ v.raw # << >>
         /\ \A i \in DOMAIN Commits(v) :
              ~StrictlyInside(NodeRect(nodeXY[n]),
                              convertToGameCoordinates(Commits(v)[i]))

\* C29: route state is destroyed with its link.  After Link.remove() no
\* pending timer and no in-flight solve of the link changes its route state
\* (signature, committed path, pending flag) or hands a polyline to the
\* renderer.
C29_DestroyedWithLink ==
  [][\A l \in Links :
       (linkState[l] = "removed" /\ linkState'[l] = "removed")
         => /\ RouteState(l)' = RouteState(l)
            /\ polyline'[l] = polyline[l]]_vars

\* the segment from a to b is horizontal or vertical
AxisAligned(a, b) == a[1] = b[1] \/ a[2] = b[2]

\* the segment from a to b runs along the axis of the greater of the
\* displacements dx and dy (x when they are equal), towards the target
AlongDominant(a, b, dx, dy) ==
  IF Abs(dx) >= Abs(dy)
  THEN b[2] = a[2] /\ Sign(b[1] - a[1]) = Sign(dx)
  ELSE b[1] = a[1] /\ Sign(b[2] - a[2]) = Sign(dy)

\* where a leg from p to b turns when it runs along the axis of the greater
\* displacement first (x when they are equal)
Corner(p, b) ==
  IF Abs(b[1] - p[1]) >= Abs(b[2] - p[2]) THEN << b[1], p[2] >>
  ELSE << p[1], b[2] >>

\* the point c lies on a horizontal or vertical segment of the polyline out
OnPolyline(c, out) ==
  \E j \in 1..(Len(out) - 1) :
    /\ AxisAligned(out[j], out[j + 1])
    /\ Min(out[j][1], out[j + 1][1]) <= c[1]
    /\ c[1] <= Max(out[j][1], out[j + 1][1])
    /\ Min(out[j][2], out[j + 1][2]) <= c[2]
    /\ c[2] <= Max(out[j][2], out[j + 1][2])

\* the polyline out leaves its first point towards the point q along the
\* axis of greater displacement, and its leg from the point p to its last
\* point, begun along that axis, passes through Corner; where the result is
\* not simplified (exact) Corner is the point before the last
LegsDominant(out, q, p, exact) ==
  LET a == out[1]
      b == out[Len(out)]
  IN /\ ~AxisAligned(a, q)
          => AlongDominant(a, out[2], q[1] - a[1], q[2] - a[2])
     /\ ~AxisAligned(p, b)
          => /\ OnPolyline(Corner(p, b), out)
             /\ exact => out[Len(out) - 1] = Corner(p, b)

\* every segment of out that is not horizontal or vertical joins two points
\* of path
AddedAxisAligned(out, path) ==
  \A i \in 1..(Len(out) - 1) :
    AxisAligned(out[i], out[i + 1])
      \/ \E j \in DOMAIN path : \E k \in DOMAIN path :
           out[i] = path[j] /\ out[i + 1] = path[k]

\* `points && points.length ? [...points] : [end]`
stitchedPath == IF postCall.points # << >> THEN postCall.points
                ELSE << postCall.end >>

\* C30: endpoint stitching is orthogonal.  Every segment _stitchEndpoints
\* adds between an exact pin coordinate and the first or the last cell
\* center is horizontal or vertical, and each joining leg starts along the
\* axis of greater displacement.
C30_StitchOrthogonal ==
  postCall.fn = "stitch" =>
    /\ postCall.rets[1][1] = postCall.start
    /\ postCall.rets[1][Len(postCall.rets[1])] = postCall.end
    /\ AddedAxisAligned(postCall.rets[1], stitchedPath)
    /\ LegsDominant(postCall.rets[1], stitchedPath[1],
                    stitchedPath[Len(stitchedPath)], revision = "part_003")

\* both ends were stitched, one of them along y first
C30_Witness ==
  /\ postCall.fn = "stitch" /\ Len(postCall.points) = 2
  /\ ~AxisAligned(postCall.start, postCall.points[1])
  /\ ~AxisAligned(postCall.points[2], postCall.end)
  /\ Abs(postCall.points[1][1] - postCall.start[1])
       < Abs(postCall.points[1][2] - postCall.start[2])
  /\ Len(postCall.rets[1]) >= 6

\* the record v2 is the record v1 later in its life: what the closures of
\* the solve captured is as it was, or the solve has finished
SameCapture(v1, v2) ==
  \/ v2 = [v1 EXCEPT !.phase = v2.phase]
  \/ v2.phase = "finished"

\* the solve a launch of l in this state starts: its endpoints are the pins
\* as they are now, its answer the one of the grid built from the plan as it
\* is now
FreshSolve(l, r, ends) ==
  [ startLL |-> startLatLng(pinBounds, l), endLL |-> endLatLng(pinBounds, l),
    s |-> convertToGameCoordinates(startLatLng(pinBounds, l)),
    e |-> convertToGameCoordinates(endLatLng(pinBounds, l)),
    raw |-> r.raw,
    phase |-> IF ends \/ r.atOnce THEN "callbackQueued" ELSE "searching" ]

\* C31: fresh snapshot at launch.  The step that starts a solve, the firing
\* of the debounce timer, adds one solve whose endpoints and grid are read
\* from the pins and the node rectangles of that moment; no other step
\* starts a solve, and no step changes what a solve in flight has captured.
C31_FreshSnapshot ==
  [][\A l \in Links :
       IF BagCardinality(solves'[l]) > BagCardinality(solves[l])
       THEN /\ Len(timers'[l]) < Len(timers[l])
            /\ \E ends \in BOOLEAN :
                 solves'[l] = solves[l] (+) SetToBag({FreshSolve(l, RouteNow(l), ends)})
       ELSE \A v2 \in BagToSet(solves'[l]) :
              \E v1 \in BagToSet(solves[l]) : SameCapture(v1, v2)]_vars

\* a solve launched while n2 is dragged away from its saved place is in
\* flight, and the pins have moved on since its launch
C31_Witness ==
  \E l \in Links : \E v \in BagToSet(solves[l]) :
    /\ v.phase = "searching"
    /\ v.endLL # endLatLng(nodeXY, l)
    /\ v.endLL # endLatLng(pinBounds, l)

\* C32: obstacle interiors are blocked.  After the node loop every cell
\* whose center lies strictly inside the rectangle of a node that intersects
\* the region holds the blocked value.
C32_InteriorsBlocked ==
  NodeLoopEnded =>
    \A n \in Nodes : \A c \in DOMAIN gb.grid :
      (/\ ~OutsideRegion(gbRegion, NodeRect(nodeXY[n]))
       /\ StrictlyInside(NodeRect(nodeXY[n]), toPoint(gbRegion, c)))
        => gb.grid[c] = Tile(revision).blocked

\* C33: invalidation clears the committed path.  A read that finds the
\* signature changed leaves the committed path null and returns the fallback
\* of the new endpoints, not the path that was committed; from then on the
\* path stays null in every step but the success branch of a solver
\* callback, and every read that leaves it null returns the fallback.
C33_InvalidationClearsPath ==
  [][\A l \in Links :
       /\ Invalidation(l) =>
            /\ _pathLatLngs'[l] = Null
            /\ _pathLatLngs[l] # Null => polyline'[l] # _pathLatLngs[l]
       /\ (_pathLatLngs[l] = Null /\ _pathLatLngs'[l] # Null) =>
            \E v \in BagToSet(solves[l]) : callbackSuccess(l, v)
       /\ (Read(l) /\ _pathLatLngs'[l] = Null) =>
            polyline'[l] = fallbackElbow(revision, startLatLng(pinBounds, l)',
                                         endLatLng(pinBounds, l)')]_vars

\* a link in the window the property is about: a solve of the link has
\* ended, a later read found the signature changed and armed the timer, the
\* path is null and the polyline shows the fallback of the new endpoints
C33_Witness ==
  \E l \in Links :
    /\ lastRead[l] \in {"miss", "missPending"}
    /\ _pathLatLngs[l] = Null
    /\ _recomputeScheduled[l]
    /\ polyline[l] = fallbackElbow(revision, startLatLng(pinBounds, l),
                                   endLatLng(pinBounds, l))
    /\ \E v \in BagToSet(solves[l]) : v.phase = "finished"

\* C34: in every reachable state the pending flag of a link is true exactly
\* when a debounce timer of the link is outstanding, and it is false while a
\* solve of the link is in flight.
C34_PendingFlag ==
  \A l \in Links :
    /\ _recomputeScheduled[l] <=> timers[l] # << >>
    /\ NumInFlight(l) > 0 => ~_recomputeScheduled[l]

\* C35: a link constructed with both pins resolvable starts with signature
\* null, committed path null and pending flag false; when its constructor
\* (create() and the first update()) has run, the current signature is
\* stored, the pending flag is set, exactly one debounce timer is armed, the
\* committed path is null and no solve of the link has been started.
C35_Construction ==
  [][\A l \in Links :
       addLink(l) =>
         /\ NewLinkRec.key = Null
         /\ NewLinkRec.path = Null
         /\ ~NewLinkRec.sched
         /\ _lastEndpointsKey'[l] = CurrentKey(l)'
         /\ _lastEndpointsKey'[l] # Null
         /\ _pathLatLngs'[l] = Null
         /\ _recomputeScheduled'[l]
         /\ Len(timers'[l]) = 1
         /\ solves'[l] = EmptyBag]_vars

\* a link whose constructor has just run: nothing but the first update()
\* has touched it
C35_Witness ==
  \E l \in Links :
    /\ linkState[l] = "live"
    /\ lastRead[l] = "miss"
    /\ timers[l] = << 0 >>
    /\ solves[l] = EmptyBag
    /\ pathLaunch[l] = Null
    /\ dragNode = NoNode
    /\ pinBounds = nodeXY

(***************************************************************************)
(* The cells of the grid a build reads or writes, as pairs (column, row).  *)
(***************************************************************************)
\* the cells `grid[cy][cx]` the two loops of markRect run over
markRectCells(rev, R, x1, y1, x2, y2) ==
  LET mincX == toCellX(R, Min(x1, x2))
      maxcX == toCellX(R, Max(x1, x2))
      mincY == toCellY(R, Min(y1, y2))
      maxcY == toCellY(R, Max(y1, y2))
      last == IF rev = "part_003" THEN 1 ELSE 0
  IN { << cx, cy >> : cx \in mincX..(maxcX - last), cy \in mincY..(maxcY - last) }

\* the cells of the two markRect calls of the node loop for the rectangle
\* r, none if the loop skips r
nodeCells(rev, R, r) ==
  LET halo == haloCells * R.cell
  IN IF OutsideRegion(R, r) THEN {}
     ELSE markRectCells(rev, R, r.x1 - halo, r.y1 - halo, r.x2 + halo,
                        r.y2 + halo)
          \cup markRectCells(rev, R, r.x1, r.y1, r.x2, r.y2)

\* src/src/Link.js: the cells forceSetCell and raiseCellCost index the grid
\* with in carveCorridor, that is those that pass their first line
corridorCells(R, p, r, c0) ==
  LET dir == corridorDir(p, r)
      c1 == << c0[1] + dir[1], c0[2] + dir[2] >>
      c2 == << c1[1] + dir[1], c1[2] + dir[2] >>
  IN { c \in {c0, c1, c2} : InGrid(R, c) }

\* the cells the penalty pass indexes the grid with for the polyline ll:
\* the cell of every sample, and in src/src/Link.js the 4-neighbours of it
\* that pass `if (ny < 0 || ny >= rows || nx < 0 || nx >= cols) continue`
penaltyCells(rev, R, ll) ==
  LET samples == PolylineCells(R, ll)
  IN IF rev = "part_003" THEN samples
     ELSE samples \cup
          { c \in UNION { Neighbours4(t) : t \in samples } : InGrid(R, c) }

\* every cell the build at hand indexes the grid with
gbCells ==
  LET R == gbRegion
      lls == otherPolylines(revision, gb.this)
  IN {gbStartCell, gbEndCell}
     \cup UNION { nodeCells(revision, R, NodeRect(nodeXY[n])) : n \in Nodes }
     \cup ( IF revision = "part_003" THEN {}
            ELSE corridorCells(R, gb.s, NodeRect(nodeXY[LinkFrom(gb.this)]),
                               gbStartCell)
                 \cup corridorCells(R, gb.e, NodeRect(nodeXY[LinkTo(gb.this)]),
                                    gbEndCell) )
     \cup UNION { penaltyCells(revision, R, lls[i]) : i \in DOMAIN lls }

\* C36: every grid access of a grid build is in bounds: the start cell, the
\* end cell and every cell the halo, interior, corridor and penalty passes
\* index the grid with have 0 <= row < rows and 0 <= column < cols, also
\* for nodes and polylines that reach outside the region.
C36_AccessesInBounds ==
  gb.pass # "idle" =>
    \A c \in gbCells :
      /\ 0 <= c[1] /\ c[1] < gbRegion.cols
      /\ 0 <= c[2] /\ c[2] < gbRegion.rows
      /\ c \in DOMAIN gb.grid

\* a build with a node whose halo reaches beyond the last column of the
\* grid and a polyline of another link with a point outside the region
C36_Witness ==
  /\ gb.pass = "setGrid"
  /\ \E n \in Nodes :
       /\ ~OutsideRegion(gbRegion, NodeRect(nodeXY[n]))
       /\ NodeRect(nodeXY[n]).x2 + haloCells * gbRegion.cell
            >= gbRegion.minX + gbRegion.cols * gbRegion.cell
  /\ \E i \in DOMAIN otherPolylines(revision, gb.this) :
       \E k \in DOMAIN otherPolylines(revision, gb.this)[i] :
         LET q == convertToGameCoordinates(otherPolylines(revision, gb.this)[i][k])
         IN \/ q[1] < gbRegion.minX
            \/ q[1] >= gbRegion.minX + gbRegion.cols * gbRegion.cell
            \/ q[2] < gbRegion.minY
            \/ q[2] >= gbRegion.minY + gbRegion.rows * gbRegion.cell

\* the tiles the build hands to easystar.setTileCost
SetTileCosts(rev) ==
  IF rev = "part_003" THEN {3, 6} ELSE {3, 5, 6, 10, 12, 14, 25, 55}

\* the tile t has a cost for the search: the one of setTileCost, or for the
\* fill value 1, which no setTileCost names, the cost 1 a tile has without
HasCost(rev, t) == t \in SetTileCosts(rev) \/ t = Tile(rev).walkable

\* C37: at every point of a grid build, every value in a cell of the grid
\* is the blocked sentinel or a member of the acceptable tiles declared to
\* the solver that has a cost; no pass leaves a value the solver would
\* treat as unwalkable because it was not declared.
C37_ValuesDeclared ==
  gb.pass # "idle" =>
    \A c \in DOMAIN gb.grid :
      \/ gb.grid[c] = Tile(revision).blocked
      \/ /\ gb.grid[c] \in AcceptableTiles(revision)
         /\ HasCost(revision, gb.grid[c])
         /\ CellCost(revision, gb.grid[c]) # Unreached

\* a grid handed to the solver that holds the fill value, the halo value,
\* the blocked sentinel and the penalty of another link's polyline
C37_Witness ==
  /\ gb.pass = "setGrid"
  /\ \A t \in {Tile(revision).walkable, Tile(revision).halo,
                Tile(revision).blocked, Tile(revision).core} :
       \E c \in DOMAIN gb.grid : gb.grid[c] = t

====
